---- MODULE Spec2Model ----
(***************************************************************************)
(* A model of the gemini-watermark-remover engine (package watermark):     *)
(* the geometry detector, the reference alpha extractor and the            *)
(* reverse-blend engine, driven by a caller that builds an engine, holds   *)
(* an image and calls RemoveWatermark on it.                               *)
(*                                                                         *)
(* Images are *image.RGBA values: a rectangle and a pixel buffer that      *)
(* lives in a heap, so that two images may or may not share a buffer.      *)
(* A buffer is stored sparsely (a backdrop and the pixels that differ from  *)
(* it, by row), which is what lets a 1025x1025 image be a state.  Channel  *)
(* values are the 8-bit values Color.RGBA()>>8 yields.                     *)
(*                                                                         *)
(* float32 values are kept exactly, as a 24-bit mantissa m and an          *)
(* exponent e standing for m / 2^e.                                        *)
(***************************************************************************)
EXTENDS Integers, Sequences, FiniteSets, TLC

VARIABLES
    engine,     \* the *Engine NewEngine returned (Nil before, and on failure)
    err,        \* the error NewEngine returned ("" for nil)
    heap,       \* pixel buffers: buffer id -> buffer
    img,        \* the caller's input image (Nil before it is decoded)
    result,     \* the image the last RemoveWatermark returned (Nil before)
    calls,      \* RemoveWatermark calls made on img so far
    info,       \* what the last query returned (Nil before)
    writes,     \* pixels the caller has set after its calls
    bg48PNG,    \* the embedded assets/bg_48.png, as png.Decode reads it
    bg96PNG,    \* the embedded assets/bg_96.png, as png.Decode reads it
    frames,     \* the RemoveWatermark calls in flight, by goroutine
    suffix,     \* the -s flag of the command line
    fs,         \* the file system: path -> "file" or "dir"
    main        \* the flags verbose and quiet, and the locals of func main
                \* (Nil while it is not running)

vars == <<engine, err, heap, img, result, calls, info, writes,
          bg48PNG, bg96PNG, frames, suffix, fs, main>>

\* The variables of the command line: the package variable suffix, the
\* file system, and main, which holds the package variables verbose and
\* quiet (main.verbose, main.quiet) next to the locals of func main.
cliVars == <<suffix, fs, main>>

\* The nil pointer and the nil image.
Nil == [nil |-> TRUE]

(***************************************************************************)
(* Bounds of the model.                                                    *)
(***************************************************************************)
\* Image widths and heights lie within DimSlack of a geometry threshold.
DimSlack == 1
\* RemoveWatermark is called at most MaxCalls times on the caller's image.
MaxCalls == 2
\* The caller sets at most MaxWrites pixels afterwards.
MaxWrites == 1
\* A channel value goes through the loop body at most MaxRounds times.
MaxRounds == 3

(***************************************************************************)
(* float32 arithmetic.                                                     *)
(***************************************************************************)
Pow2(n) == 2 ^ n

F32Zero == [m |-> 0, e |-> 0]

\* The quotient bits of num/den, one binary digit at a time, until the
\* quotient has 24 significant bits: <<quotient, remainder, digits after
\* the binary point>>.
RECURSIVE F32Digits(_, _, _, _)
F32Digits(q, r, den, e) ==
    IF q >= Pow2(23) THEN <<q, r, e>>
    ELSE F32Digits(2 * q + (IF 2 * r >= den THEN 1 ELSE 0),
                   (2 * r) % den, den, e + 1)

\* num/den (0 <= num <= den, den > 0) rounded to the nearest float32,
\* ties to even: what a float32 division of two exactly representable
\* operands, or the conversion of a constant, yields.
RoundToF32(num, den) ==
    IF num = 0 THEN F32Zero
    ELSE LET d    == F32Digits(num \div den, num % den, den, 0)
             up   == 2 * d[2] > den \/ (2 * d[2] = den /\ d[1] % 2 = 1)
             mant == IF up THEN d[1] + 1 ELSE d[1]
         IN  IF mant = Pow2(24) THEN [m |-> Pow2(23), e |-> d[3] - 1]
             ELSE [m |-> mant, e |-> d[3]]

\* a < b for non-negative float32 values (normalised mantissas).
F32Less(a, b) ==
    IF a.m = 0 THEN b.m > 0
    ELSE b.m > 0 /\ (a.e > b.e \/ (a.e = b.e /\ a.m < b.m))

(***************************************************************************)
(* Algorithm constants (engine.go).                                        *)
(***************************************************************************)
AlphaThreshold == RoundToF32(2, 1000)
MaxAlpha == RoundToF32(99, 100)
LogoValue == 255

\* The two presets of DetectConfig and its size threshold.
Size48 == 48
Margin48 == 32
Size96 == 96
Margin96 == 64
LargeThreshold == 1024

(***************************************************************************)
(* Geometry detector (engine.go).                                          *)
(***************************************************************************)
\* A variant that takes the large preset from 1024 on: the claims on the
\* threshold tell it from DetectConfig.
DetectConfigFrom1024(width, height) ==
    IF width >= LargeThreshold /\ height >= LargeThreshold
    THEN [Size |-> Size96, Margin |-> Margin96]
    ELSE [Size |-> Size48, Margin |-> Margin48]

DetectConfig(width, height) ==
    IF width > LargeThreshold /\ height > LargeThreshold
    THEN [Size |-> Size96, Margin |-> Margin96]
    ELSE [Size |-> Size48, Margin |-> Margin48]

\* image.Rect: the rectangle with the given corners, put in canonical order.
Rect(x0, y0, x1, y1) ==
    [Min |-> [X |-> IF x0 > x1 THEN x1 ELSE x0, Y |-> IF y0 > y1 THEN y1 ELSE y0],
     Max |-> [X |-> IF x0 > x1 THEN x0 ELSE x1, Y |-> IF y0 > y1 THEN y0 ELSE y1]]

Dx(r) == r.Max.X - r.Min.X
Dy(r) == r.Max.Y - r.Min.Y

\* Point.In(r)
In(x, y, r) == r.Min.X <= x /\ x < r.Max.X /\ r.Min.Y <= y /\ y < r.Max.Y

\* A variant that keeps the corner inside the image: the claims on small
\* images tell it from CalculatePosition.
CalculatePositionClamped(imgWidth, imgHeight, config) ==
    LET x == imgWidth - config.Margin - config.Size
        y == imgHeight - config.Margin - config.Size
        x0 == IF x < 0 THEN 0 ELSE x
        y0 == IF y < 0 THEN 0 ELSE y
    IN  Rect(x0, y0, x0 + config.Size, y0 + config.Size)

CalculatePosition(imgWidth, imgHeight, config) ==
    LET x == imgWidth - config.Margin - config.Size
        y == imgHeight - config.Margin - config.Size
    IN  Rect(x, y, x + config.Size, y + config.Size)

\* A variant that places the rectangle at the image's edges.
GetWatermarkInfoAtEdge(width, height) ==
    LET config == DetectConfig(width, height)
    IN  [config |-> config,
         position |-> Rect(width - config.Size, height - config.Size, width, height)]

\* A variant that passes the height for the width and the width for the
\* height.
GetWatermarkInfoSwapped(width, height) ==
    LET config == DetectConfig(height, width)
    IN  [config |-> config, position |-> CalculatePosition(height, width, config)]

GetWatermarkInfo(width, height) ==
    LET config == DetectConfig(width, height)
    IN  [config |-> config, position |-> CalculatePosition(width, height, config)]

(***************************************************************************)
(* Pixels, buffers and *image.RGBA values.                                 *)
(***************************************************************************)
RGBA(r, g, b, a) == [R |-> r, G |-> g, B |-> b, A |-> a]

\* color.RGBA{}: what At returns outside the image's rectangle.
ZeroColor == RGBA(0, 0, 0, 0)

\* A backdrop gives a pixel to every point: the colour base at the origin,
\* each channel changing by a multiple of step per column and per row.
\* With step = 0 the backdrop is one flat colour.
Backdrop(base, step) == [base |-> base, step |-> step]

BackdropAt(bg, x, y) ==
    IF bg.step = 0 THEN bg.base
    ELSE RGBA((bg.base.R + bg.step * (3 * x + 5 * y)) % 256,
              (bg.base.G + bg.step * (7 * x + y)) % 256,
              (bg.base.B + bg.step * (x + 11 * y)) % 256,
              (bg.base.A + bg.step * 17 * (x + y)) % 256)

\* A buffer holds a backdrop bg and, by row y and column x, the pixels
\* px[y][x] stored explicitly; every other pixel is the backdrop's.
NoRows == [y \in {} |-> [x \in {} |-> ZeroColor]]
Uniform(c) == [bg |-> Backdrop(c, 0), px |-> NoRows]

PixAt(buf, x, y) ==
    IF y \in DOMAIN buf.px /\ x \in DOMAIN buf.px[y] THEN buf.px[y][x]
    ELSE BackdropAt(buf.bg, x, y)

RowSet(row, x, c) ==
    IF x \in DOMAIN row THEN [row EXCEPT ![x] = c] ELSE (x :> c) @@ row

PixSet(buf, x, y, c) ==
    IF y \in DOMAIN buf.px
    THEN [buf EXCEPT !.px[y] = RowSet(@, x, c)]
    ELSE [buf EXCEPT !.px = (y :> (x :> c)) @@ @]

\* (*RGBA).At and RGBAAt: the zero colour outside the rectangle.
At(h, im, x, y) ==
    IF In(x, y, im.Rect) THEN PixAt(h[im.Pix], x, y) ELSE ZeroColor

\* (*RGBA).SetRGBA: no effect outside the rectangle.
SetRGBA(h, im, x, y, c) ==
    IF In(x, y, im.Rect) THEN [h EXCEPT ![im.Pix] = PixSet(@, x, y, c)] ELSE h

\* image.NewRGBA(r): a fresh zeroed buffer, appended to the heap.
NewBufferId(h) == Len(h) + 1
\* Variants: one hands out the buffer allocated last instead of a fresh
\* one, one allocates a square of the rectangle's width.
NewRGBAShared(h, r) ==
    [heap |-> h, image |-> [Pix |-> Len(h), Rect |-> r]]
NewRGBASquare(h, r) ==
    [heap  |-> Append(h, Uniform(ZeroColor)),
     image |-> [Pix  |-> NewBufferId(h),
                Rect |-> Rect(r.Min.X, r.Min.Y, r.Max.X, r.Min.Y + Dx(r))]]

NewRGBA(h, r) ==
    [heap |-> Append(h, Uniform(ZeroColor)), image |-> [Pix |-> NewBufferId(h), Rect |-> r]]

\* The type of an image: *image.RGBA unless it says otherwise (an
\* *image.NRGBA or *image.YCbCr that image.Decode returned).
KindOf(im) == IF "Kind" \in DOMAIN im THEN im.Kind ELSE "RGBA"

\* drawNRGBASrc of image/draw: a non-premultiplied pixel as the
\* alpha-premultiplied pixel stored in an *image.RGBA.
Premultiply(c) ==
    LET sa == c.A * 257
    IN  RGBA(((c.R * sa) \div 255) \div 256, ((c.G * sa) \div 255) \div 256,
             ((c.B * sa) \div 255) \div 256, sa \div 256)

\* if uint32(v)&0xff000000 == 0 { v >>= 16 } else { v = ^(v >> 31) }, as a
\* uint8: v / 2^16 for 0 <= v < 2^24, 0 below and 255 above.
Shift16(v) == IF v < 0 THEN 0 ELSE IF v >= 16777216 THEN 255 ELSE v \div 65536

\* DrawYCbCr of image/internal/imageutil: a [Y, Cb, Cr] sample as an opaque
\* RGBA pixel.
YCbCrToRGBA(c) ==
    LET yy1 == c.Y * 65793
        cb1 == c.Cb - 128
        cr1 == c.Cr - 128
    IN  RGBA(Shift16(yy1 + 91881 * cr1),
             Shift16(yy1 - 22554 * cb1 - 46802 * cr1),
             Shift16(yy1 + 116130 * cb1), 255)

\* A buffer with F applied to each of its pixels.  (Used on buffers whose
\* backdrop is one flat colour.)
MapPixels(buf, F(_)) ==
    [bg |-> Backdrop(F(buf.bg.base), buf.bg.step),
     px |-> [y \in DOMAIN buf.px |-> [x \in DOMAIN buf.px[y] |-> F(buf.px[y][x])]]]

\* draw.Draw(dst, bounds, src, bounds.Min, draw.Src) with dst and src of the
\* same rectangle: every pixel of src is converted to RGBA and stored at
\* the same place in dst.
DrawSrc(h, dst, src) ==
    [h EXCEPT ![dst.Pix] =
        IF KindOf(src) = "NRGBA" THEN MapPixels(h[src.Pix], Premultiply)
        ELSE IF KindOf(src) = "YCbCr" THEN MapPixels(h[src.Pix], YCbCrToRGBA)
        ELSE h[src.Pix]]

(***************************************************************************)
(* Reference assets and the alpha extractor (doc.go, alphamap.go).         *)
(*                                                                         *)
(* The embedded PNGs are data of the build.  A decoded reference is an     *)
(* image.Image given by its bounds and its pixel at each point: the logo   *)
(* in shades of near-grey on a black background, black at three points in  *)
(* four and of every level from 0 to 255 at the others.  An image.Image    *)
(* with a field bg is a picture of that backdrop instead.                  *)
(***************************************************************************)
RefLevel(size, x, y) ==
    IF (x + 2 * y) % 4 # 0 THEN 0 ELSE (5 * x + 11 * y + size) % 256

\* The brightest channel carries the level; which one it is varies.
RefAt(ref, x, y) ==
    LET v == RefLevel(Dx(ref.Rect), x - ref.Rect.Min.X, y - ref.Rect.Min.Y)
        k == (x + y) % 3
    IN  IF ~In(x, y, ref.Rect) THEN ZeroColor
        ELSE IF "bg" \in DOMAIN ref THEN BackdropAt(ref.bg, x, y)
        ELSE RGBA(IF k = 0 THEN v ELSE v \div 2,
                  IF k = 1 THEN v ELSE v \div 3,
                  IF k = 2 THEN v ELSE 0, 255)

\* The assets a build may embed: bg_48.png decodes to 48x48, bg_96.png to
\* 96x96, or does not decode.
Assets(size) == {[ok |-> TRUE, Rect |-> Rect(0, 0, size, size)], [ok |-> FALSE]}

\* A variant that refuses a size other than 48 and 96.
LoadReferenceImageStrict(size, bg48, bg96) ==
    IF size = 96 THEN bg96 ELSE IF size = 48 THEN bg48 ELSE [ok |-> FALSE]

\* LoadReferenceImage(size) for the embedded pair <<bg48, bg96>>.
LoadReferenceImage(size, bg48, bg96) == IF size = 96 THEN bg96 ELSE bg48

\* float32(k) / 255.0 for the 8-bit levels k.  (f @@ <<>> is f, held as a
\* table of its values.)
LevelAlpha == [k \in 0..255 |-> RoundToF32(k, 255)] @@ <<>>

Max3(a, b, c) ==
    LET ab == IF b > a THEN b ELSE a IN IF c > ab THEN c ELSE ab

\* A variant that averages the channels.
CalculateAlphaMapAverage(ref) ==
    LET width  == Dx(ref.Rect)
        height == Dy(ref.Rect)
    IN  [i \in 1..(width * height) |->
            LET x == (i - 1) % width
                y == (i - 1) \div width
                c == RefAt(ref, ref.Rect.Min.X + x, ref.Rect.Min.Y + y)
            IN  LevelAlpha[(c.R + c.G + c.B) \div 3]] @@ <<>>

\* CalculateAlphaMap: alphaMap[y*width+x] (here 1-based) is the brightest of
\* the pixel's 8-bit R, G, B, over 255, as a float32.
CalculateAlphaMap(ref) ==
    LET width  == Dx(ref.Rect)
        height == Dy(ref.Rect)
    IN  [i \in 1..(width * height) |->
            LET x == (i - 1) % width
                y == (i - 1) \div width
                c == RefAt(ref, ref.Rect.Min.X + x, ref.Rect.Min.Y + y)
            IN  LevelAlpha[Max3(c.R, c.G, c.B)]] @@ <<>>

\* A variant that goes on with the 48px map alone when the 96px reference
\* does not decode.
NewEngineWithout96(bg48, bg96) ==
    LET img48 == LoadReferenceImage(48, bg48, bg96)
        img96 == LoadReferenceImage(96, bg48, bg96)
    IN  IF ~img48.ok THEN <<Nil, "failed to load 48px reference">>
        ELSE IF ~img96.ok THEN <<[alphaMap48 |-> CalculateAlphaMap(img48),
                                  alphaMap96 |-> <<>>], "">>
        ELSE <<[alphaMap48 |-> CalculateAlphaMap(img48),
                alphaMap96 |-> CalculateAlphaMap(img96)], "">>

\* NewEngine: <<engine, error>>.
NewEngine(bg48, bg96) ==
    LET img48 == LoadReferenceImage(48, bg48, bg96)
        img96 == LoadReferenceImage(96, bg48, bg96)
    IN  IF ~img48.ok THEN <<Nil, "failed to load 48px reference">>
        ELSE IF ~img96.ok THEN <<Nil, "failed to load 96px reference">>
        ELSE <<[alphaMap48 |-> CalculateAlphaMap(img48),
                alphaMap96 |-> CalculateAlphaMap(img96)], "">>

(***************************************************************************)
(* Reverse-blend engine (engine.go).                                       *)
(*                                                                         *)
(* The float64 steps of the formula are exact except the division: for an  *)
(* 8-bit w and a float32 alpha = m/2^e, alpha*255, w - alpha*255 and       *)
(* 1 - alpha need at most 42 bits.  The quotient is                        *)
(*     (w - alpha*255) / (1 - alpha)  =  255 - (255 - w) * 2^e / (2^e - m) *)
(* and a non-integer quotient lies at least 1/(2^e - m) > 2^-32 from an    *)
(* integer, further than float64 rounding moves it, so the rounded         *)
(* quotient has the floor, and the sign, of the exact one.  A quotient is  *)
(* kept as its floor n and whether it is that integer exactly.             *)
(***************************************************************************)
\* (1 - alpha) * 2^e for the float32 alpha = m / 2^e < 1.
OneMinusAlpha(alpha) ==
    LET half == Pow2(alpha.e - 1) IN (half - alpha.m) + half

\* Long division of (q*den + r) * 2^steps by den (r < den < 2^31), a binary
\* digit at a time: <<quotient, remainder>>.
RECURSIVE LongDiv(_, _, _, _)
LongDiv(q, r, den, steps) ==
    IF steps = 0 THEN <<q, r>>
    ELSE LET over == r >= den - r
         IN  LongDiv(2 * q + (IF over THEN 1 ELSE 0),
                     IF over THEN r - (den - r) ELSE r + r, den, steps - 1)

\* A variant that takes the logo for black: watermarked / (1 - alpha).
ReverseBlendBlackLogo(watermarked, alpha) ==
    LET den  == OneMinusAlpha(alpha)
        head == watermarked * Pow2(22)
        d    == LongDiv(head \div den, head % den, den, alpha.e - 22)
    IN  [n |-> d[1], exact |-> d[2] = 0]

\* (watermarked - alpha*LogoValue) / (1 - alpha), for alpha.e >= 22: the
\* first 22 binary digits of (LogoValue - watermarked) * 2^e / (2^e - m) in
\* one division, the others by LongDiv.
ReverseBlend(watermarked, alpha) ==
    LET den  == OneMinusAlpha(alpha)
        head == (LogoValue - watermarked) * Pow2(22)
        d    == LongDiv(head \div den, head % den, den, alpha.e - 22)
    IN  IF d[2] = 0 THEN [n |-> LogoValue - d[1], exact |-> TRUE]
        ELSE [n |-> LogoValue - d[1] - 1, exact |-> FALSE]

Whole(k) == [n |-> k, exact |-> TRUE]

\* A variant of clamp without the lower bound.
clampAbove(value, min, max) ==
    IF value.n > max \/ (value.n = max /\ ~value.exact) THEN Whole(max) ELSE value

\* clamp(value, min, max) for integer min and max.
clamp(value, min, max) ==
    IF value.n < min THEN Whole(min)
    ELSE IF value.n > max \/ (value.n = max /\ ~value.exact) THEN Whole(max)
    ELSE value

\* uint8(value) for a value within [0, 255]: the fraction is dropped.
Uint8(value) == value.n

\* alphaIdx := row*config.Size + col, as an index of a 1-based sequence.
AlphaIdx(row, col, config) == row * config.Size + col + 1

\* A variant of the loop body that writes an opaque pixel.
ProcessPixelOpaque(h, l, row, col) ==
    LET imgX == l.position.Min.X + col
        imgY == l.position.Min.Y + row
        a0   == l.alphaMap[AlphaIdx(row, col, l.config)]
        alpha == IF F32Less(MaxAlpha, a0) THEN MaxAlpha ELSE a0
        c    == At(h, l.result, imgX, imgY)
        originalR == clamp(ReverseBlend(c.R, alpha), 0, 255)
        originalG == clamp(ReverseBlend(c.G, alpha), 0, 255)
        originalB == clamp(ReverseBlend(c.B, alpha), 0, 255)
    IN  IF imgX < 0 \/ imgY < 0 \/ imgX >= l.width \/ imgY >= l.height THEN h
        ELSE IF F32Less(a0, AlphaThreshold) THEN h
        ELSE SetRGBA(h, l.result, imgX, imgY,
                     RGBA(Uint8(originalR), Uint8(originalG), Uint8(originalB), 255))

\* A variant that restores each pixel from the pixel two rows above it.
ProcessPixelSmearing(h, l, row, col) ==
    LET imgX == l.position.Min.X + col
        imgY == l.position.Min.Y + row
        a0   == l.alphaMap[AlphaIdx(row, col, l.config)]
        alpha == IF F32Less(MaxAlpha, a0) THEN MaxAlpha ELSE a0
        c    == At(h, l.result, imgX, imgY)
        above == IF imgY > 1 THEN At(h, l.result, imgX, imgY - 2) ELSE c
        originalR == clamp(ReverseBlend(above.R, alpha), 0, 255)
        originalG == clamp(ReverseBlend(above.G, alpha), 0, 255)
        originalB == clamp(ReverseBlend(above.B, alpha), 0, 255)
    IN  IF imgX < 0 \/ imgY < 0 \/ imgX >= l.width \/ imgY >= l.height THEN h
        ELSE IF F32Less(a0, AlphaThreshold) THEN h
        ELSE SetRGBA(h, l.result, imgX, imgY,
                     RGBA(Uint8(originalR), Uint8(originalG), Uint8(originalB), c.A))

\* The body of the inner loop for one (row, col), on heap h with the locals
\* l of RemoveWatermark: the heap it leaves.
ProcessPixel(h, l, row, col) ==
    LET imgX == l.position.Min.X + col
        imgY == l.position.Min.Y + row
        a0   == l.alphaMap[AlphaIdx(row, col, l.config)]
        alpha == IF F32Less(MaxAlpha, a0) THEN MaxAlpha ELSE a0
        c    == At(h, l.result, imgX, imgY)
        originalR == clamp(ReverseBlend(c.R, alpha), 0, 255)
        originalG == clamp(ReverseBlend(c.G, alpha), 0, 255)
        originalB == clamp(ReverseBlend(c.B, alpha), 0, 255)
    IN  IF imgX < 0 \/ imgY < 0 \/ imgX >= l.width \/ imgY >= l.height THEN h
        ELSE IF F32Less(a0, AlphaThreshold) THEN h
        ELSE SetRGBA(h, l.result, imgX, imgY,
                     RGBA(Uint8(originalR), Uint8(originalG), Uint8(originalB), c.A))

\* for col := lo; col < hi; col++ { ... }: the iterations lo..hi-1 of the
\* inner loop in increasing order: those below the middle, then, on the
\* heap they leave, the rest.
RECURSIVE ColLoop(_, _, _, _, _)
ColLoop(h, l, row, lo, hi) ==
    IF hi <= lo THEN h
    ELSE IF hi = lo + 1 THEN ProcessPixel(h, l, row, lo)
    ELSE CHOOSE out \in
            {ColLoop(left, l, row, (lo + hi) \div 2, hi) :
                left \in {ColLoop(h, l, row, lo, (lo + hi) \div 2)}} : TRUE

\* for row := lo; row < hi; row++ { for col := 0; col < config.Size; col++ }
RECURSIVE RowLoop(_, _, _, _)
RowLoop(h, l, lo, hi) ==
    IF hi <= lo THEN h
    ELSE IF hi = lo + 1 THEN ColLoop(h, l, lo, 0, l.config.Size)
    ELSE CHOOSE out \in
            {RowLoop(left, l, (lo + hi) \div 2, hi) :
                left \in {RowLoop(h, l, lo, (lo + hi) \div 2)}} : TRUE

\* A variant that selects the other map.
SelectAlphaMapSwapped(e, config) ==
    IF config.Size = 96 THEN e.alphaMap48 ELSE e.alphaMap96

\* var alphaMap []float32; if config.Size == 96 { ... } else { ... }
SelectAlphaMap(e, config) ==
    IF config.Size = 96 THEN e.alphaMap96 ELSE e.alphaMap48

\* (e *Engine) RemoveWatermark(img): the heap it leaves and the image it
\* returns.  The loops run on the locals the code holds when it reaches
\* them.
RemoveWatermark(e, h, im) ==
    LET bounds   == im.Rect
        width    == Dx(bounds)
        height   == Dy(bounds)
        new      == NewRGBA(h, bounds)
        config   == DetectConfig(width, height)
        locals   == [result   |-> new.image,
                     width    |-> width,
                     height   |-> height,
                     config   |-> config,
                     position |-> CalculatePosition(width, height, config),
                     alphaMap |-> SelectAlphaMap(e, config)]
    IN  CHOOSE r \in
            {[heap  |-> RowLoop(copied, l, 0, l.config.Size), image |-> l.result] :
                copied \in {DrawSrc(new.heap, new.image, im)}, l \in {locals}} : TRUE

(***************************************************************************)
(* Forward compositing (README, "The Math"): the picture a logo of value   *)
(* LogoValue leaves over an original channel value,                        *)
(*     watermarked = alpha * LogoValue + (1 - alpha) * original            *)
(*                 = LogoValue - (1 - alpha) * (LogoValue - original),     *)
(* stored as an 8-bit value.                                               *)
(***************************************************************************)
\* q * d / 2^s for q < 2^31, d < 2^8, s >= 16: its floor, and whether it is
\* whole.  The product is formed in two 16-bit halves of q.
ShiftedProduct(q, d, s) ==
    LET lo == (q % Pow2(16)) * d
        hi == (q \div Pow2(16)) * d + lo \div Pow2(16)
    IN  [n     |-> hi \div Pow2(s - 16),
         exact |-> hi % Pow2(s - 16) = 0 /\ lo % Pow2(16) = 0]

\* The ways of storing the composite as an integer.
Roundings == {"nearest", "floor"}

Composite(original, alpha, rounding) ==
    LET den == OneMinusAlpha(alpha)
        d   == LogoValue - original
    IN  IF rounding = "floor"
        THEN LET x == ShiftedProduct(den, d, alpha.e)
             IN  IF x.exact THEN LogoValue - x.n ELSE LogoValue - x.n - 1
        ELSE LET x2 == ShiftedProduct(den, d, alpha.e - 1)
             IN  IF x2.exact THEN (2 * LogoValue + 1 - x2.n) \div 2
                 ELSE (2 * LogoValue - x2.n) \div 2

CompositePixel(c, alpha, rounding) ==
    RGBA(Composite(c.R, alpha, rounding), Composite(c.G, alpha, rounding),
         Composite(c.B, alpha, rounding), c.A)

\* The pixels of a width x height picture of backdrop bg on which the logo
\* of engine e lies, at the detected watermark position.
Watermarked(e, bg, width, height, rounding) ==
    LET config   == DetectConfig(width, height)
        position == CalculatePosition(width, height, config)
        alphaMap == SelectAlphaMap(e, config)
        a(x, y)  == alphaMap[AlphaIdx(y - position.Min.Y, x - position.Min.X, config)]
        rows     == {y \in position.Min.Y..(position.Max.Y - 1) : 0 <= y /\ y < height}
        cols(y)  == {x \in position.Min.X..(position.Max.X - 1) :
                        0 <= x /\ x < width /\ a(x, y).m > 0}
    IN  [y \in rows |->
            [x \in cols(y) |-> CompositePixel(BackdropAt(bg, x, y), a(x, y), rounding)]]

(***************************************************************************)
(* The inputs of a run.                                                    *)
(***************************************************************************)
\* Widths and heights: those within DimSlack of a threshold of the geometry.
Thresholds == {0, Margin48, Margin48 + Size48, LargeThreshold}
Dims == {t + d : t \in Thresholds, d \in (0 - DimSlack)..DimSlack} \cap Nat

\* The sizes asked about: those, and the sizes of the package's tests.
QueryDims == Dims \cup {600, 800, 2000}
Presets == {DetectConfig(w, w) : w \in QueryDims}

\* Sizes at which the whole watermark rectangle of the small and of the
\* large preset lies in the image, and one at which part of it does.
FullDims == {Margin48 + Size48 + DimSlack, LargeThreshold + DimSlack}
PartDims == {Margin48 + DimSlack}

\* Backdrops: the flat colour of the package's tests, a flat colour near
\* white, and one whose four channels change from pixel to pixel.
TestColor == RGBA(100, 150, 200, 255)
Bright == RGBA(253, 254, 255, 200)
Ramp == Backdrop(RGBA(255, 0, 37, 128), 1)

\* Corners of image bounds that do not start at (0, 0), as a sub-image has.
Origins == {<<16, 16>>, <<-8, -8>>}

\* Pictures as image.Decode returns them: an *image.NRGBA from a PNG with an
\* alpha channel, of a colour that is neither opaque nor transparent and of
\* one that is nearly transparent, and an *image.YCbCr from a JPEG; of a
\* size that holds the whole watermark rectangle and of one that holds
\* nothing of it.
Faint == RGBA(100, 150, 200, 1)
Decoded ==
    [NRGBA |-> {Backdrop(Bright, 0), Backdrop(Faint, 0)},
     YCbCr |-> {Backdrop([Y |-> 200, Cb |-> 100, Cr |-> 180], 0)}]
DecodedDims == {Margin48, Margin48 + Size48 + DimSlack}

\* The images a caller may hold: a size, the corner of the bounds, a
\* backdrop and, for a watermarked picture, the rounding of the composite;
\* an *image.RGBA unless a kind is given.
Inputs ==
    {[w |-> w, h |-> h, min |-> <<0, 0>>, bg |-> Backdrop(TestColor, 0), mark |-> "none"] :
        w \in Dims, h \in Dims}
    \cup {[w |-> d, h |-> d, min |-> <<0, 0>>, bg |-> Ramp, mark |-> m] :
            d \in FullDims, m \in Roundings \cup {"none"}}
    \cup {[w |-> d, h |-> d, min |-> o, bg |-> Ramp, mark |-> "none"] :
            d \in FullDims \cup PartDims, o \in Origins}
    \cup {[w |-> d, h |-> d, min |-> <<0, 0>>, bg |-> Backdrop(Bright, 0), mark |-> "none"] :
            d \in FullDims}
    \cup UNION {{[w |-> d, h |-> d, min |-> <<0, 0>>, bg |-> bg, mark |-> "none", kind |-> k] :
                    d \in DecodedDims, bg \in Decoded[k]} : k \in DOMAIN Decoded}

\* The sizes LoadReferenceImage is asked for: the two it knows, those of the
\* package's tests, and the neighbours of 96.
RefSizes == {Size48, Size96, 0, 1, 32, 64, 100, -1, Size96 - 1, Size96 + 1}

\* The pictures CalculateAlphaMap is asked about: black, white, grey, the
\* darkest green, one with a dominant red, one with a dominant blue and one
\* whose channels change from pixel to pixel,
\* of a few sizes, with bounds that start at (0, 0) or elsewhere.
PictureSizes == {<<0, 0>>, <<1, 1>>, <<3, 2>>, <<4, 4>>}
PictureOrigins == {<<0, 0>>, <<2, 1>>}
PictureColors ==
    {Backdrop(RGBA(0, 0, 0, 255), 0), Backdrop(RGBA(255, 255, 255, 255), 0),
     Backdrop(RGBA(128, 128, 128, 255), 0), Backdrop(RGBA(200, 100, 50, 255), 0),
     Backdrop(RGBA(50, 100, 200, 255), 0), Backdrop(RGBA(0, 1, 0, 255), 0), Ramp}
Pictures ==
    {[ok |-> TRUE, Rect |-> Rect(o[1], o[2], o[1] + d[1], o[2] + d[2]), bg |-> bg] :
        d \in PictureSizes, o \in PictureOrigins, bg \in PictureColors}

\* The pixels the caller may set, and the colour it sets them to.
WritePoints == {<<0, 0>>, <<Margin48 + Size48 - 1, Margin48 + Size48 - 1>>}
WriteColor == RGBA(1, 2, 3, 4)

(***************************************************************************)
(* The caller.                                                             *)
(***************************************************************************)
\* The program before main or a test has run: the assets are those of the
\* build, the flag variable holds the empty string.
Loaded ==
    /\ bg48PNG \in Assets(48)
    /\ bg96PNG \in Assets(96)
    /\ engine = Nil
    /\ err = ""
    /\ heap = <<>>
    /\ img = Nil
    /\ result = Nil
    /\ calls = 0
    /\ info = Nil
    /\ writes = 0
    /\ frames = <<>>
    /\ suffix = <<>>
    /\ fs = <<>>
    /\ main = Nil

Init == Loaded

\* engine, err := watermark.NewEngine()
DoNewEngine ==
    /\ engine = Nil /\ err = "" /\ info = Nil
    /\ \E r \in {NewEngine(bg48PNG, bg96PNG)} : engine' = r[1] /\ err' = r[2]
    /\ UNCHANGED <<heap, img, result, calls, info, writes, bg48PNG, bg96PNG, frames, cliVars>>

\* config := watermark.DetectConfig(width, height)
DoDetectConfig ==
    /\ img = Nil /\ info = Nil
    /\ \E width \in QueryDims, height \in QueryDims :
        info' = [op |-> "DetectConfig", width |-> width, height |-> height,
                 config |-> DetectConfig(width, height)]
    /\ UNCHANGED <<engine, err, heap, img, result, calls, writes, bg48PNG, bg96PNG, frames, cliVars>>

\* position := watermark.CalculatePosition(imgWidth, imgHeight, config)
DoCalculatePosition ==
    /\ img = Nil /\ info = Nil
    /\ \E imgWidth \in QueryDims, imgHeight \in QueryDims, config \in Presets :
        info' = [op |-> "CalculatePosition", width |-> imgWidth, height |-> imgHeight,
                 config |-> config,
                 position |-> CalculatePosition(imgWidth, imgHeight, config)]
    /\ UNCHANGED <<engine, err, heap, img, result, calls, writes, bg48PNG, bg96PNG, frames, cliVars>>

\* config, position := watermark.GetWatermarkInfo(width, height), asked
\* about any size before an image is held and about the image's afterwards.
DoGetWatermarkInfo ==
    /\ info = Nil
    /\ \E width \in (IF img = Nil THEN QueryDims ELSE {Dx(img.Rect)}),
          height \in (IF img = Nil THEN QueryDims ELSE {Dy(img.Rect)}) :
        \E r \in {GetWatermarkInfo(width, height)} :
            info' = [op |-> "GetWatermarkInfo", width |-> width, height |-> height,
                     config |-> r.config, position |-> r.position]
    /\ UNCHANGED <<engine, err, heap, img, result, calls, writes, bg48PNG, bg96PNG, frames, cliVars>>

\* img, err := watermark.LoadReferenceImage(size)
DoLoadReferenceImage ==
    /\ img = Nil /\ info = Nil
    /\ \E size \in RefSizes :
        info' = [op |-> "LoadReferenceImage", size |-> size,
                 image |-> LoadReferenceImage(size, bg48PNG, bg96PNG)]
    /\ UNCHANGED <<engine, err, heap, img, result, calls, writes, bg48PNG, bg96PNG, frames, cliVars>>

\* alphaMap := watermark.CalculateAlphaMap(img)
DoCalculateAlphaMap ==
    /\ img = Nil /\ info = Nil
    /\ \E picture \in Pictures :
        info' = [op |-> "CalculateAlphaMap", image |-> picture,
                 alphaMap |-> CalculateAlphaMap(picture)]
    /\ UNCHANGED <<engine, err, heap, img, result, calls, writes, bg48PNG, bg96PNG, frames, cliVars>>

\* The caller decodes or builds its image.
LoadImage ==
    /\ engine # Nil /\ img = Nil /\ info = Nil
    /\ \E i \in Inputs :
        /\ img' = [Pix |-> NewBufferId(heap),
                   Rect |-> Rect(i.min[1], i.min[2], i.min[1] + i.w, i.min[2] + i.h)]
                  @@ (IF "kind" \in DOMAIN i THEN [Kind |-> i.kind] ELSE <<>>)
        /\ heap' = Append(heap,
                [bg |-> i.bg,
                 px |-> IF i.mark = "none" THEN NoRows
                        ELSE Watermarked(engine, i.bg, i.w, i.h, i.mark)])
    /\ UNCHANGED <<engine, err, result, calls, info, writes, bg48PNG, bg96PNG, frames, cliVars>>

\* A variant of the call that stores the clamped alpha back into the map it
\* reads.
DoRemoveWatermarkClampingMap ==
    /\ engine # Nil /\ img # Nil /\ info = Nil /\ calls < MaxCalls /\ writes = 0
    /\ \E r \in {RemoveWatermark(engine, heap, img)} :
        heap' = r.heap /\ result' = r.image
    /\ calls' = calls + 1
    /\ engine' =
            LET clamped(map) ==
                    [i \in DOMAIN map |-> IF F32Less(MaxAlpha, map[i]) THEN MaxAlpha ELSE map[i]]
            IN  IF DetectConfig(Dx(img.Rect), Dy(img.Rect)).Size = 96
                THEN [engine EXCEPT !.alphaMap96 = clamped(@)]
                ELSE [engine EXCEPT !.alphaMap48 = clamped(@)]
    /\ UNCHANGED <<err, img, info, writes, bg48PNG, bg96PNG, frames, cliVars>>

\* result := engine.RemoveWatermark(img)
DoRemoveWatermark ==
    /\ engine # Nil /\ img # Nil /\ info = Nil /\ calls < MaxCalls /\ writes = 0
    /\ \E r \in {RemoveWatermark(engine, heap, img)} :
        heap' = r.heap /\ result' = r.image
    /\ calls' = calls + 1
    /\ UNCHANGED <<engine, err, img, info, writes, bg48PNG, bg96PNG, frames, cliVars>>

\* img.SetRGBA(x, y, c), when img is an *image.RGBA, or
\* result.SetRGBA(x, y, c), after the calls.
CallerWrite ==
    /\ result # Nil /\ info = Nil /\ writes < MaxWrites
    /\ \E target \in (IF KindOf(img) = "RGBA" THEN {img, result} ELSE {result}),
          p \in WritePoints :
        heap' = SetRGBA(heap, target, p[1], p[2], WriteColor)
    /\ writes' = writes + 1
    /\ UNCHANGED <<engine, err, img, result, calls, info, bg48PNG, bg96PNG, frames, cliVars>>

Next ==
    \/ DoNewEngine
    \/ DoDetectConfig
    \/ DoCalculatePosition
    \/ DoGetWatermarkInfo
    \/ DoLoadReferenceImage
    \/ DoCalculateAlphaMap
    \/ LoadImage
    \/ DoRemoveWatermark
    \/ CallerWrite

Spec == Init /\ [][Next]_vars

(***************************************************************************)
(* Properties of the geometry detector.                                    *)
(***************************************************************************)
Asked(op) == info # Nil /\ info.op = op

\* C1: DetectConfig(width, height) is {Size: 96, Margin: 64} if and only if
\* width > 1024 and height > 1024, and {Size: 48, Margin: 32} for every other
\* pair, (1024,1024), (1025,800), (800,1025), (1024,2000) and (2000,1024)
\* among them.
C1_DetectConfigThreshold ==
    Asked("DetectConfig") =>
        /\ info.config = [Size |-> 96, Margin |-> 64]
                <=> (info.width > 1024 /\ info.height > 1024)
        /\ ~(info.width > 1024 /\ info.height > 1024)
                => info.config = [Size |-> 48, Margin |-> 32]
        /\ <<info.width, info.height>> \in
                    {<<1024, 1024>>, <<1025, 800>>, <<800, 1025>>, <<1024, 2000>>, <<2000, 1024>>}
                => info.config = [Size |-> 48, Margin |-> 32]

\* DetectConfig has been asked about 1024 x 1024 and has answered.
C1_Witness ==
    Asked("DetectConfig") /\ info.width = 1024 /\ info.height = 1024
        /\ info.config.Size = 48

\* C2: CalculatePosition(imgW, imgH, config) is the rectangle with top-left
\* corner (imgW - Margin - Size, imgH - Margin - Size) and width = height =
\* Size, for every imgW and imgH: the corner is not clamped, and is negative
\* when the image is smaller than Margin + Size.
C2_PositionUnclamped ==
    Asked("CalculatePosition") =>
        LET x == info.width - info.config.Margin - info.config.Size
            y == info.height - info.config.Margin - info.config.Size
        IN  /\ info.position.Min = [X |-> x, Y |-> y]
            /\ info.position.Max = [X |-> x + info.config.Size, Y |-> y + info.config.Size]
            /\ info.width < info.config.Margin + info.config.Size => info.position.Min.X < 0
            /\ info.height < info.config.Margin + info.config.Size => info.position.Min.Y < 0
            /\ <<info.width, info.height, info.config.Size>> = <<800, 600, 48>>
                    => info.position.Min = [X |-> 720, Y |-> 520]
            /\ <<info.width, info.height, info.config.Size>> = <<2000, 2000, 96>>
                    => info.position.Min = [X |-> 1840, Y |-> 1840]

\* CalculatePosition has been asked about an image smaller than the
\* footprint and has answered with a corner left of and above the image.
C2_Witness ==
    Asked("CalculatePosition") /\ info.width = 1 /\ info.height = 33
        /\ info.config.Size = 96 /\ info.position.Min.X < 0 /\ info.position.Min.Y < 0

(***************************************************************************)
(* Properties of RemoveWatermark.  They are stated on the state in which   *)
(* a call has returned and the caller has not yet written to an image,     *)
(* with the geometry of the specification written out.                     *)
(***************************************************************************)
Returned == result # Nil /\ writes = 0

\* The pixels of the caller's image as R, G, B and A: those it stores or,
\* for an *image.YCbCr, the colours its samples stand for.
input ==
    IF KindOf(img) = "YCbCr" THEN MapPixels(heap[img.Pix], YCbCrToRGBA) ELSE heap[img.Pix]
\* The same pixels as At(x, y).RGBA() gives them, in 8 bits: multiplied by
\* their alpha.  (color.NRGBA's RGBA computes R * 0x101 * (A * 0x101) / 0xffff,
\* which is R * (A * 0x101) / 0xff, the value drawNRGBASrc stores.)
seen == IF KindOf(img) = "NRGBA" THEN MapPixels(input, Premultiply) ELSE input
output == heap[result.Pix]

\* The points of rectangle r, and those a buffer stores explicitly.
Points(r) == (r.Min.X..(r.Max.X - 1)) \X (r.Min.Y..(r.Max.Y - 1))
Stored(buf) == UNION {{<<x, y>> : x \in DOMAIN buf.px[y]} : y \in DOMAIN buf.px}

\* The points of r at which two buffers differ.  Buffers of one backdrop
\* differ only where one of them stores a pixel.
Differ(a, b, r) ==
    {p \in (IF a.bg = b.bg THEN Stored(a) \cup Stored(b) ELSE Points(r)) :
        In(p[1], p[2], r) /\ PixAt(a, p[1], p[2]) # PixAt(b, p[1], p[2])}

Changed == Differ(input, output, img.Rect)
\* The points at which the output differs from the RGBA copy of the input.
Altered == Differ(seen, output, img.Rect)

\* The detected preset and watermark rectangle of a width x height image.
IsLarge(width, height) == width > 1024 /\ height > 1024
WmSize(width, height) == IF IsLarge(width, height) THEN 96 ELSE 48
WmMargin(width, height) == IF IsLarge(width, height) THEN 64 ELSE 32
WmX(im) == Dx(im.Rect) - WmMargin(Dx(im.Rect), Dy(im.Rect)) - WmSize(Dx(im.Rect), Dy(im.Rect))
WmY(im) == Dy(im.Rect) - WmMargin(Dx(im.Rect), Dy(im.Rect)) - WmSize(Dx(im.Rect), Dy(im.Rect))
WmRect(im) ==
    [Min |-> [X |-> WmX(im), Y |-> WmY(im)],
     Max |-> [X |-> WmX(im) + WmSize(Dx(im.Rect), Dy(im.Rect)),
              Y |-> WmY(im) + WmSize(Dx(im.Rect), Dy(im.Rect))]]
InWatermark(p, im) ==
    /\ WmX(im) <= p[1] /\ p[1] < WmX(im) + WmSize(Dx(im.Rect), Dy(im.Rect))
    /\ WmY(im) <= p[2] /\ p[2] < WmY(im) + WmSize(Dx(im.Rect), Dy(im.Rect))

\* The alpha-map value that belongs to point p of the watermark rectangle.
WmAlpha(p, im) ==
    LET size == WmSize(Dx(im.Rect), Dy(im.Rect))
        map  == IF size = 96 THEN engine.alphaMap96 ELSE engine.alphaMap48
    IN  map[(p[2] - WmY(im)) * size + (p[1] - WmX(im)) + 1]

\* C3 as claimed: for every input image, every pixel of RemoveWatermark's
\* output outside the detected watermark rectangle [x, x+size) x [y, y+size)
\* has the R, G, B and A of the input pixel at the same coordinates.
C3_AsClaimed ==
    Returned => \A p \in Changed : InWatermark(p, img)

\* C4: RemoveWatermark never writes to the caller's input image, over any
\* sequence of calls, and returns a separate buffer: a call leaves every
\* buffer that existed before it as it was and returns a new one, and a
\* later write to the input or to the result changes only that image.
C4_InputNeverMutated ==
    [][/\ calls' # calls =>
            /\ \A b \in DOMAIN heap : heap'[b] = heap[b]
            /\ result'.Pix \notin DOMAIN heap
            /\ result'.Pix # img.Pix
       /\ writes' # writes =>
            /\ result.Pix # img.Pix
            /\ heap'[img.Pix] = heap[img.Pix] \/ heap'[result.Pix] = heap[result.Pix]
      ]_vars

\* After two calls that changed pixels, the caller has written to the
\* result: the input still shows the colour it was loaded with.
C4_Witness ==
    /\ calls = 2 /\ writes = 1
    /\ heap[1] # heap[2] /\ heap[1] # heap[3]
    /\ PixAt(output, 0, 0) = WriteColor
    /\ PixAt(input, 0, 0) = TestColor

\* C5: at every pixel of the image, inside or outside the watermark
\* rectangle, the alpha channel of the output equals that of the input.
C5_AlphaPreserved ==
    Returned => \A p \in Changed : PixAt(output, p[1], p[2]).A = PixAt(input, p[1], p[2]).A

\* A call has changed the colour of a pixel that is neither opaque nor
\* transparent.
C5_Witness ==
    Returned /\ \E p \in Changed : PixAt(input, p[1], p[2]).A \notin {0, 255}

(***************************************************************************)
(* The restored value, in exact arithmetic.  With alpha = m / 2^e and      *)
(* den = 2^e - m,                                                          *)
(*     (w - alpha*255) / (1 - alpha) = 255 - (255 - w) * 2^e / den,        *)
(* so that n <= (w - alpha*255) / (1 - alpha) exactly when                 *)
(* (255 - w) * 2^e <= (255 - n) * den.  The products are compared as       *)
(* pairs of a high part and a low 16 bits.                                 *)
(***************************************************************************)
\* (hi * 2^16 + lo) * d, for lo < 2^16.
Wide(hi, lo, d) == <<hi * d + (lo * d) \div 65536, (lo * d) % 65536>>
WideLeq(a, b) == a[1] < b[1] \/ (a[1] = b[1] /\ a[2] <= b[2])

\* n <= (w - alpha*255) / (1 - alpha), for alpha < 1.
AtMostRestored(n, w, alpha) ==
    LET den == (2 ^ (alpha.e - 1) - alpha.m) + 2 ^ (alpha.e - 1)
    IN  WideLeq(Wide(2 ^ (alpha.e - 16), 0, 255 - w),
                Wide(den \div 65536, den % 65536, 255 - n))

\* n is clamp((w - alpha*255) / (1 - alpha), 0, 255) truncated to an integer.
IsRestored(n, w, alpha) ==
    /\ n \in 0..255
    /\ n = 0 \/ AtMostRestored(n, w, alpha)
    /\ n = 255 \/ ~AtMostRestored(n + 1, w, alpha)

\* The same with alpha = 0.99: (w - 252.45) / 0.01 = 100 * w - 25245.
IsRestoredAt99(n, w) ==
    LET v == 100 * w - 25245
    IN  n = IF v < 0 THEN 0 ELSE IF v > 255 THEN 255 ELSE v

\* alpha > 0.99 and alpha >= 0.002 in exact arithmetic, for alpha < 1 with
\* 2^23 <= m < 2^24: alpha > 0.99 needs e = 24, and alpha >= 0.002 holds
\* from 2^-8 on (e <= 31), fails below 2^-8.9 (e >= 33), and between them
\* asks for m >= 0.002 * 2^32 = 8589934.592.
Above99(alpha) == alpha.m > 0 /\ alpha.e <= 24 /\ 100 * alpha.m > 99 * 2 ^ alpha.e
AtLeast002(alpha) ==
    alpha.m > 0 /\ (alpha.e <= 31 \/ (alpha.e = 32 /\ alpha.m >= 8589935))

\* The points of the watermark rectangle that are pixels of the image and
\* whose alpha-map value is at least AlphaThreshold.
Processed(im) ==
    {p \in Points(WmRect(im)) :
        /\ 0 <= p[1] /\ p[1] < Dx(im.Rect) /\ 0 <= p[2] /\ p[2] < Dy(im.Rect)
        /\ In(p[1], p[2], im.Rect)
        /\ AtLeast002(WmAlpha(p, im))}

Channels == {"R", "G", "B"}

\* C6 (as amended): at every in-bounds pixel of the watermark rectangle
\* whose alpha-map value a is at least 0.002, each of R, G and B of the output
\* is clamp((w - a'*255) / (1 - a'), 0, 255) truncated to an integer, where w
\* is the input value of the channel as At(x, y).RGBA() gives it in 8 bits
\* (multiplied by the pixel's alpha, when the input does not store it so)
\* and a' = min(a, MaxAlpha), MaxAlpha being the float32 nearest to 0.99,
\* 16609444 / 2^24.
C6_ReverseBlendFormula ==
    /\ MaxAlpha = [m |-> 16609444, e |-> 24]
    /\ Returned =>
        \A p \in Processed(img) : \A ch \in Channels :
            LET a == WmAlpha(p, img)
            IN  IsRestored(PixAt(output, p[1], p[2])[ch], PixAt(seen, p[1], p[2])[ch],
                           IF F32Less(MaxAlpha, a) THEN MaxAlpha ELSE a)

\* C6 as claimed, with a' = min(a, 0.99) for the number 0.99.
C6_AsClaimed ==
    Returned =>
        \A p \in Processed(img) : \A ch \in Channels :
            LET a == WmAlpha(p, img)
                n == PixAt(output, p[1], p[2])[ch]
                w == PixAt(input, p[1], p[2])[ch]
            IN  IF Above99(a) THEN IsRestoredAt99(n, w) ELSE IsRestored(n, w, a)

\* A call has restored a pixel under an alpha above MaxAlpha, one under a
\* smaller alpha to a value strictly between 0 and 255, and one to 0.
C6_Witness ==
    /\ Returned
    /\ \E p \in Processed(img) : F32Less(MaxAlpha, WmAlpha(p, img))
    /\ \E p \in Processed(img) :
            /\ ~F32Less(MaxAlpha, WmAlpha(p, img))
            /\ PixAt(output, p[1], p[2]).R \in 1..254
            /\ PixAt(output, p[1], p[2]).R # PixAt(input, p[1], p[2]).R
    /\ \E p \in Processed(img) :
            PixAt(output, p[1], p[2]).G = 0 /\ PixAt(input, p[1], p[2]).G > 0

(***************************************************************************)
(* The round trip.  A watermarked input stores, where the logo lies, the   *)
(* composite of its backdrop, which is then the original picture.  The     *)
(* channel values are those At(x, y).RGBA() gives in 8 bits.               *)
(***************************************************************************)
Original(p) == BackdropAt(seen.bg, p[1], p[2])

\* Channel ch of the input at p is the composite of the original, stored
\* with the given rounding.
Composited(p, ch, rounding) ==
    PixAt(seen, p[1], p[2])[ch] = Composite(Original(p)[ch], WmAlpha(p, img), rounding)

\* Channel ch of the output at p is within tol levels of the original.
Recovered(p, ch, tol) ==
    LET d == PixAt(output, p[1], p[2])[ch] - Original(p)[ch]
    IN  0 - tol <= d /\ d <= tol

\* alpha <= 128/255.
AtMostHalf(alpha) == ~F32Less(LevelAlpha[128], alpha)

\* C7 (as amended): if a watermarked image is built by compositing
\* alpha*255 + (1-alpha)*original at the detected watermark position, then at
\* the pixels whose alpha is at most 128/255 RemoveWatermark recovers each of
\* R, G and B of the original to within 1 level when the composite was
\* rounded to the nearest integer, and to within 2 levels when it was
\* truncated.
C7_RoundTripUpToHalf ==
    Returned =>
        \A p \in Processed(img) : \A ch \in Channels :
            AtMostHalf(WmAlpha(p, img)) =>
                /\ Composited(p, ch, "nearest") => Recovered(p, ch, 1)
                /\ Composited(p, ch, "floor") => Recovered(p, ch, 2)

\* C7 as claimed: for every alpha map, each channel is recovered to within 1
\* level.
C7_AsClaimed ==
    Returned =>
        \A p \in Processed(img) : \A ch \in Channels : \A rounding \in Roundings :
            Composited(p, ch, rounding) => Recovered(p, ch, 1)

\* A call has returned on an input that stores composites rounded to the
\* nearest integer: under an alpha of at most 128/255 the composite differs
\* from the original and the output from the composite.
C7_Witness ==
    /\ Returned
    /\ \A p \in Processed(img) : \A ch \in Channels : Composited(p, ch, "nearest")
    /\ \E p \in Processed(img) :
            /\ AtMostHalf(WmAlpha(p, img))
            /\ PixAt(input, p[1], p[2]).R # Original(p).R
            /\ PixAt(output, p[1], p[2]).R # PixAt(input, p[1], p[2]).R

(***************************************************************************)
(* Small images, skipped pixels and dimensions.                            *)
(***************************************************************************)
\* C8 as claimed: RemoveWatermark completes, returning an image, for every
\* image size, sizes below margin+size and zero width or height included; a
\* watermark coordinate outside [0,width) x [0,height) is skipped, so that no
\* pixel there is written; and when the whole rectangle lies outside the
\* image (width <= margin or height <= margin) the output is pixel for pixel
\* the input.
C8_AsClaimed ==
    calls > 0 =>
        /\ result # Nil /\ result.Pix \in DOMAIN heap
        /\ writes = 0 =>
            /\ \A p \in Altered :
                    0 <= p[1] /\ p[1] < Dx(img.Rect) /\ 0 <= p[2] /\ p[2] < Dy(img.Rect)
            /\ (\/ Dx(img.Rect) <= WmMargin(Dx(img.Rect), Dy(img.Rect))
                \/ Dy(img.Rect) <= WmMargin(Dx(img.Rect), Dy(img.Rect)))
                    => output = input

\* C9 as claimed: a pixel inside the watermark rectangle whose alpha-map
\* value is below AlphaThreshold (0.002) is left as in the input, in all
\* four channels.
C9_AsClaimed ==
    Returned =>
        \A p \in Points(WmRect(img)) :
            In(p[1], p[2], img.Rect) /\ ~AtLeast002(WmAlpha(p, img)) =>
                PixAt(output, p[1], p[2]) = PixAt(input, p[1], p[2])

\* C10: the output of RemoveWatermark has the width and height of its
\* input, for every input size.
C10_DimensionsPreserved ==
    result # Nil =>
        Dx(result.Rect) = Dx(img.Rect) /\ Dy(result.Rect) = Dy(img.Rect)

\* A call has returned on an image wider than 1024 and lower than the
\* watermark footprint.
C10_Witness ==
    /\ result # Nil
    /\ Dx(img.Rect) = 1025 /\ Dy(img.Rect) = 79
    /\ Dx(result.Rect) = 1025 /\ Dy(result.Rect) = 79

(***************************************************************************)
(* Properties of the alpha extractor and of the engine's construction.     *)
(***************************************************************************)
\* The float32 a = m / 2^e is the float32 nearest to k / 255, for k in
\* 0..255: a is 0 for k = 0, and otherwise has a 24-bit mantissa and lies
\* within half a unit of its last place of k / 255, that is
\* |255 * m - k * 2^e| <= 127.  255 * m is held as a high part and 16 bits.
NearestToOver255(a, k) ==
    IF k = 0 THEN a.m = 0
    ELSE /\ 8388608 <= a.m /\ a.m < 16777216 /\ a.e \in 23..31
         /\ LET p  == Wide(a.m \div 65536, a.m % 65536, 255)
                 hi == k * 2 ^ (a.e - 16)
             IN  (p[1] = hi /\ p[2] <= 127) \/ (p[1] = hi - 1 /\ p[2] >= 65536 - 127)

\* 0 <= a <= 1 for a float32 a = m / 2^e.
InUnit(a) ==
    \/ a.m = 0
    \/ a.m > 0 /\ a.m < 2 ^ 24 /\ a.e >= 24
    \/ a.m > 0 /\ a.e \in 0..23 /\ a.m <= 2 ^ a.e

\* k is the greatest of the R, G and B of colour c.
IsMaxChannel(k, c) == k \in {c.R, c.G, c.B} /\ k >= c.R /\ k >= c.G /\ k >= c.B

\* C11: CalculateAlphaMap(img) returns width*height values in row-major
\* order from the image's top-left pixel; the entry for pixel (x, y) is
\* max(R, G, B) / 255 of the pixel's 8-bit channels, as a float32; an
\* all-black image yields all 0.0, an all-white one all 1.0, and every entry
\* lies in [0, 1].
C11_AlphaMapIsMaxOver255 ==
    Asked("CalculateAlphaMap") =>
        LET r == info.image.Rect
            w == r.Max.X - r.Min.X
            h == r.Max.Y - r.Min.Y
            pixel(x, y) == BackdropAt(info.image.bg, r.Min.X + x, r.Min.Y + y)
            entry(x, y) == info.alphaMap[y * w + x + 1]
        IN  /\ DOMAIN info.alphaMap = 1..(w * h)
            /\ \A x \in 0..(w - 1), y \in 0..(h - 1) :
                    /\ \E k \in 0..255 :
                            IsMaxChannel(k, pixel(x, y)) /\ NearestToOver255(entry(x, y), k)
                    /\ InUnit(entry(x, y))
                    /\ pixel(x, y) = RGBA(0, 0, 0, 255) => entry(x, y) = [m |-> 0, e |-> 0]
                    /\ pixel(x, y) = RGBA(255, 255, 255, 255)
                            => entry(x, y) = [m |-> 8388608, e |-> 23]

\* CalculateAlphaMap has answered for a 3x2 picture whose bounds start at
\* (2, 1), in which blue is the brightest channel of the first pixel and the
\* entries of the first row differ from those of the second.
C11_Witness ==
    /\ Asked("CalculateAlphaMap")
    /\ info.image.Rect = [Min |-> [X |-> 2, Y |-> 1], Max |-> [X |-> 5, Y |-> 3]]
    /\ LET c == BackdropAt(info.image.bg, 2, 1) IN c.B > c.R /\ c.B > c.G /\ c.R # c.G
    /\ Len(info.alphaMap) = 6
    /\ info.alphaMap[1] # info.alphaMap[4]
    /\ info.alphaMap[2] # info.alphaMap[4]

\* An engine with a map of 48*48 and one of 96*96 entries, all in [0, 1].
WellFormed(e) ==
    /\ DOMAIN e.alphaMap48 = 1..(48 * 48)
    /\ DOMAIN e.alphaMap96 = 1..(96 * 96)
    /\ \A i \in 1..(48 * 48) : InUnit(e.alphaMap48[i])
    /\ \A i \in 1..(96 * 96) : InUnit(e.alphaMap96[i])

\* C12: an Engine returned by NewEngine holds an alpha map of exactly 48*48
\* entries and one of exactly 96*96 entries, every entry in [0, 1], and no
\* step of the program changes them afterwards: after any sequence of
\* RemoveWatermark calls both maps are as they were at construction.
C12_AlphaMapsImmutable ==
    [][/\ (engine = Nil /\ engine' # Nil) => WellFormed(engine')
       /\ engine # Nil => engine' = engine
      ]_vars

\* An engine has served MaxCalls calls on an image above the 1024
\* threshold, which changed pixels, and holds maps of 2304 and 9216 entries
\* with entries other than 0.
C12_Witness ==
    /\ engine # Nil /\ calls = MaxCalls /\ result # Nil
    /\ IsLarge(Dx(img.Rect), Dy(img.Rect))
    /\ heap[result.Pix] # heap[img.Pix]
    /\ Len(engine.alphaMap48) = 2304 /\ Len(engine.alphaMap96) = 9216
    /\ \E i \in 1..9216 : engine.alphaMap96[i].m > 0

\* C14: NewEngine's outcome is binary.  If the 48px or the 96px reference
\* does not decode, the engine is nil and the error names the reference that
\* failed (the 48px one when both fail); an engine is returned, with no
\* error and with both alpha maps populated, only when both references
\* decoded; no engine that holds just one map is returned.
C14_NewEngineBinary ==
    /\ engine = Nil \/ err = ""
    /\ ~bg48PNG.ok => engine = Nil /\ err \in {"", "failed to load 48px reference"}
    /\ (bg48PNG.ok /\ ~bg96PNG.ok) =>
            engine = Nil /\ err \in {"", "failed to load 96px reference"}
    /\ engine # Nil =>
            /\ bg48PNG.ok /\ bg96PNG.ok
            /\ Len(engine.alphaMap48) = 48 * 48
            /\ Len(engine.alphaMap96) = 96 * 96

\* NewEngine has returned no engine and the error of the 96px reference, in
\* a build whose 48px reference decodes.
C14_Witness ==
    /\ bg48PNG.ok /\ ~bg96PNG.ok
    /\ engine = Nil /\ err = "failed to load 96px reference"

\* C15: GetWatermarkInfo(width, height) returns the pair
\* (DetectConfig(width, height), CalculatePosition(width, height,
\* DetectConfig(width, height))) for every width and height, that is the
\* detected preset and the rectangle of that size at (width - margin - size,
\* height - margin - size), and performs no removal: the step changes no
\* image, no buffer and no engine state.
C15_InfoIsConfigAndPosition ==
    [][(info' # info /\ info'.op = "GetWatermarkInfo") =>
            LET w == info'.width
                h == info'.height
                x == w - WmMargin(w, h) - WmSize(w, h)
                y == h - WmMargin(w, h) - WmSize(w, h)
            IN  /\ info'.config = DetectConfig(w, h)
                /\ info'.position = CalculatePosition(w, h, DetectConfig(w, h))
                /\ info'.config = [Size |-> WmSize(w, h), Margin |-> WmMargin(w, h)]
                /\ info'.position = [Min |-> [X |-> x, Y |-> y],
                                     Max |-> [X |-> x + WmSize(w, h), Y |-> y + WmSize(w, h)]]
                /\ heap' = heap /\ engine' = engine /\ err' = err
                /\ img' = img /\ result' = result
      ]_vars

\* GetWatermarkInfo has answered about an image that is wider than it is
\* high and that a call has already restored.
C15_Witness ==
    /\ Asked("GetWatermarkInfo")
    /\ result # Nil /\ heap[result.Pix] # heap[img.Pix]
    /\ info.width = Dx(img.Rect) /\ info.height = Dy(img.Rect)
    /\ info.width > info.height
    /\ info.position.Min.X > info.position.Min.Y

\* C16: LoadReferenceImage(size) decodes the 96x96 reference asset when size
\* is 96 and the 48x48 reference asset for every other size (48, 0, 1, 32,
\* 64, 100, -1, 95, 97): its outcome is that of decoding the asset, and a
\* size other than 48 and 96 is no cause of failure.
C16_ReferenceBySize ==
    Asked("LoadReferenceImage") =>
        /\ info.size = 96 => info.image = bg96PNG
        /\ info.size # 96 => info.image = bg48PNG
        /\ (info.size = 96 /\ bg96PNG.ok) =>
                info.image.ok /\ Dx(info.image.Rect) = 96 /\ Dy(info.image.Rect) = 96
        /\ (info.size # 96 /\ bg48PNG.ok) =>
                info.image.ok /\ Dx(info.image.Rect) = 48 /\ Dy(info.image.Rect) = 48

\* LoadReferenceImage has been asked for size 100 and has answered with the
\* 48x48 image, in a build whose 96px reference does not decode.
C16_Witness ==
    /\ Asked("LoadReferenceImage") /\ info.size = 100
    /\ ~bg96PNG.ok
    /\ info.image.ok /\ Dx(info.image.Rect) = 48

(***************************************************************************)
(* Concurrent calls.  Goroutines call RemoveWatermark on one engine, each  *)
(* on its own image.  A call is a frame: its argument, its position in     *)
(* the code and its locals; the alpha map it reads is the engine's, read   *)
(* at each step.  A goroutine may be preempted between the statements      *)
(* before the loops and between two rows of the outer loop; it may also    *)
(* run the loops from the first row to the last without being preempted.   *)
(***************************************************************************)
\* The buffer and the image that decoding input i yields.
InputBuffer(e, i) ==
    [bg |-> i.bg,
     px |-> IF i.mark = "none" THEN NoRows ELSE Watermarked(e, i.bg, i.w, i.h, i.mark)]
InputImage(i, pix) ==
    [Pix |-> pix, Rect |-> Rect(i.min[1], i.min[2], i.min[1] + i.w, i.min[2] + i.h)]

\* Two images processed side by side, and images processed by one goroutine:
\* one above the 1024 threshold, one that holds part of the watermark
\* rectangle, one whose bounds start left of and above (0, 0), an empty one.
PairInputs ==
    <<[w |-> Margin48 + Size48 + 1, h |-> Margin48 + Size48 + 1, min |-> <<0, 0>>,
       bg |-> Ramp, mark |-> "nearest"],
      [w |-> Margin48 + Size48 + 1, h |-> Margin48 + Size48 + 1, min |-> <<0, 0>>,
       bg |-> Backdrop(Bright, 0), mark |-> "none"]>>
SoloInputs ==
    {[w |-> LargeThreshold + 1, h |-> LargeThreshold + 1, min |-> <<0, 0>>,
      bg |-> Ramp, mark |-> "floor"],
     [w |-> Margin48 + Size48 - 1, h |-> Margin48 + 1, min |-> <<0, 0>>,
      bg |-> Ramp, mark |-> "none"],
     [w |-> Margin48 + Size48 + 1, h |-> Margin48 + Size48 + 1, min |-> <<-8, -8>>,
      bg |-> Ramp, mark |-> "none"],
     [w |-> 0, h |-> 0, min |-> <<0, 0>>, bg |-> Backdrop(TestColor, 0), mark |-> "none"]}
Jobs == {PairInputs} \cup {<<a>> : a \in SoloInputs}

\* The frame of a call that has not started.
NewFrame(im) ==
    [img |-> im, pc |-> "alloc", result |-> Nil, config |-> Nil, position |-> Nil,
     row |-> 0, written |-> <<>>]

\* The locals the loops of frame f run on.
Locals(e, f) ==
    [result   |-> f.result,
     width    |-> Dx(f.img.Rect),
     height   |-> Dy(f.img.Rect),
     config   |-> f.config,
     position |-> f.position,
     alphaMap |-> SelectAlphaMap(e, f.config)]

\* A variant that sends a coordinate outside the image to the nearest edge.
WriteTargetAtEdge(l, row, col) ==
    LET x    == l.position.Min.X + col
        y    == l.position.Min.Y + row
        imgX == IF x < 0 THEN 0 ELSE x
        imgY == IF y < 0 THEN 0 ELSE y
    IN  IF imgX >= l.width \/ imgY >= l.height THEN Nil
        ELSE IF F32Less(l.alphaMap[AlphaIdx(row, col, l.config)], AlphaThreshold) THEN Nil
        ELSE IF ~In(imgX, imgY, l.result.Rect) THEN Nil
        ELSE <<imgX, imgY>>

\* The pixel iteration (row, col) of the loops writes: the point it passes
\* to result.SetRGBA when it reaches that call with a point of the result,
\* Nil when it skips the pixel.
WriteTarget(l, row, col) ==
    LET imgX == l.position.Min.X + col
        imgY == l.position.Min.Y + row
    IN  IF imgX < 0 \/ imgY < 0 \/ imgX >= l.width \/ imgY >= l.height THEN Nil
        ELSE IF F32Less(l.alphaMap[AlphaIdx(row, col, l.config)], AlphaThreshold) THEN Nil
        ELSE IF ~In(imgX, imgY, l.result.Rect) THEN Nil
        ELSE <<imgX, imgY>>

IsPoint(t) == t # Nil

\* The pixels rows lo..hi-1 of the loops write, in the order of the
\* iterations.
Targets(l, lo, hi) ==
    SelectSeq([k \in 1..((hi - lo) * l.config.Size) |->
                    WriteTarget(l, lo + (k - 1) \div l.config.Size,
                                (k - 1) % l.config.Size)],
              IsPoint)

\* The engine of a build whose assets decode, the decoded images of the
\* jobs and one frame for each.
ConcurrentInit ==
    /\ bg48PNG = [ok |-> TRUE, Rect |-> Rect(0, 0, Size48, Size48)]
    /\ bg96PNG = [ok |-> TRUE, Rect |-> Rect(0, 0, Size96, Size96)]
    /\ engine = NewEngine(bg48PNG, bg96PNG)[1]
    /\ err = ""
    /\ \E jobs \in Jobs :
        /\ heap = [k \in 1..Len(jobs) |-> InputBuffer(engine, jobs[k])] @@ <<>>
        /\ frames = [g \in 1..Len(jobs) |-> NewFrame(InputImage(jobs[g], g))] @@ <<>>
    /\ img = Nil /\ result = Nil /\ calls = 0 /\ info = Nil /\ writes = 0
    /\ suffix = <<>> /\ fs = <<>> /\ main = Nil

\* A variant that reuses the buffer of the last call that allocated one.
GoAllocReusing(g) ==
    /\ frames[g].pc = "alloc"
    /\ IF Len(heap) > Len(frames)
       THEN /\ heap' = [heap EXCEPT ![Len(heap)] = Uniform(ZeroColor)]
            /\ frames' = [frames EXCEPT ![g].pc = "copy",
                              ![g].result = [Pix |-> Len(heap), Rect |-> frames[g].img.Rect]]
       ELSE \E new \in {NewRGBA(heap, frames[g].img.Rect)} :
            /\ heap' = new.heap
            /\ frames' = [frames EXCEPT ![g].pc = "copy", ![g].result = new.image]
    /\ UNCHANGED <<engine, err, img, result, calls, info, writes, bg48PNG, bg96PNG, cliVars>>

\* bounds := img.Bounds(); result := image.NewRGBA(bounds)
GoAlloc(g) ==
    /\ frames[g].pc = "alloc"
    /\ \E new \in {NewRGBA(heap, frames[g].img.Rect)} :
        /\ heap' = new.heap
        /\ frames' = [frames EXCEPT ![g].pc = "copy", ![g].result = new.image]
    /\ UNCHANGED <<engine, err, img, result, calls, info, writes, bg48PNG, bg96PNG, cliVars>>

\* draw.Draw(result, bounds, img, bounds.Min, draw.Src), then the geometry.
GoCopy(g) ==
    /\ frames[g].pc = "copy"
    /\ heap' = DrawSrc(heap, frames[g].result, frames[g].img)
    /\ \E config \in {DetectConfig(Dx(frames[g].img.Rect), Dy(frames[g].img.Rect))} :
        frames' = [frames EXCEPT
            ![g].pc = "rows",
            ![g].config = config,
            ![g].position = CalculatePosition(Dx(frames[g].img.Rect),
                                              Dy(frames[g].img.Rect), config)]
    /\ UNCHANGED <<engine, err, img, result, calls, info, writes, bg48PNG, bg96PNG, cliVars>>

\* The condition of the outer loop, for row := 0; row < config.Size; row++,
\* at the call of frame f.
InLoop(f) == f.pc = "rows" /\ f.row < f.config.Size

\* One pass of the outer loop: for col := 0; col < config.Size; col++ { ... }
GoRow(g) ==
    /\ InLoop(frames[g])
    /\ \E l \in {Locals(engine, frames[g])} :
        /\ heap' = ColLoop(heap, l, frames[g].row, 0, l.config.Size)
        /\ frames' = [frames EXCEPT
                ![g].row = @ + 1,
                ![g].written = @ \o Targets(l, frames[g].row, frames[g].row + 1)]
    /\ UNCHANGED <<engine, err, img, result, calls, info, writes, bg48PNG, bg96PNG, cliVars>>

\* The loops, from the first row to the last, without preemption.
GoLoops(g) ==
    /\ InLoop(frames[g]) /\ frames[g].row = 0
    /\ \E l \in {Locals(engine, frames[g])} :
        /\ heap' = RowLoop(heap, l, 0, l.config.Size)
        /\ frames' = [frames EXCEPT
                ![g].row = l.config.Size,
                ![g].written = Targets(l, 0, l.config.Size)]
    /\ UNCHANGED <<engine, err, img, result, calls, info, writes, bg48PNG, bg96PNG, cliVars>>

\* row < config.Size fails: return result
GoReturn(g) ==
    /\ frames[g].pc = "rows" /\ ~InLoop(frames[g])
    /\ frames' = [frames EXCEPT ![g].pc = "done"]
    /\ UNCHANGED <<engine, err, heap, img, result, calls, info, writes, bg48PNG, bg96PNG, cliVars>>

ConcurrentNext ==
    \/ \E g \in DOMAIN frames : GoAlloc(g)
    \/ \E g \in DOMAIN frames : GoCopy(g)
    \/ \E g \in DOMAIN frames : GoRow(g)
    \/ \E g \in DOMAIN frames : GoLoops(g)
    \/ \E g \in DOMAIN frames : GoReturn(g)

Concurrent == ConcurrentInit /\ [][ConcurrentNext]_vars

(***************************************************************************)
(* Properties of concurrent calls.                                         *)
(***************************************************************************)
\* The output the call of frame f produces when it runs alone, start to
\* end, on its input.
Alone(f) ==
    LET r == RemoveWatermark(engine, <<heap[f.img.Pix]>>, [Pix |-> 1, Rect |-> f.img.Rect])
    IN  r.heap[r.image.Pix]

HasResult(f) == f.pc # "alloc"

\* C13: RemoveWatermark calls may run concurrently on one Engine, each on
\* its own image, without locking: under every interleaving no step writes
\* the Engine's alpha maps, a step of a call writes no buffer but that
\* call's own result (which is no image's input and no other call's result),
\* and the output a call returns equals the output it produces when run
\* alone.
C13_ConcurrentCallsIndependent ==
    [][/\ engine' = engine
       /\ \A g \in DOMAIN frames :
            frames'[g] # frames[g] =>
                /\ \A b \in DOMAIN heap :
                        heap'[b] # heap[b] =>
                            /\ b = frames'[g].result.Pix
                            /\ \A o \in DOMAIN frames :
                                    /\ b # frames[o].img.Pix
                                    /\ (o # g /\ HasResult(frames[o]))
                                            => b # frames[o].result.Pix
                /\ frames'[g].pc = "done" =>
                        heap'[frames'[g].result.Pix] = Alone(frames[g])
      ]_vars

\* Two calls overlap: the second goroutine allocated its result first and
\* is in its rows when the first has returned an output that differs from
\* its input.
C13_Witness ==
    /\ DOMAIN frames = {1, 2}
    /\ frames[1].pc = "done" /\ frames[2].pc = "rows" /\ frames[2].row \in 1..47
    /\ frames[2].result.Pix < frames[1].result.Pix
    /\ heap[frames[1].result.Pix] # heap[frames[1].img.Pix]

\* The pixel writes of the call of frame f so far are at most size*size, no
\* pixel is written twice, the outer loop has not passed its last row, and
\* once the call has returned every pixel at which its output differs from
\* its input is one of those writes.
WritesBounded(f) ==
    f.pc \in {"rows", "done"} =>
        /\ f.config.Size \in {48, 96}
        /\ f.row <= f.config.Size
        /\ Len(f.written) <= f.config.Size * f.config.Size
        /\ f.config.Size = 48 => Len(f.written) <= 48 * 48
        /\ Len(f.written) <= 9216
        /\ Cardinality({f.written[i] : i \in 1..Len(f.written)}) = Len(f.written)
        /\ f.pc = "done" =>
                Differ(heap[f.img.Pix], heap[f.result.Pix], f.img.Rect)
                    \subseteq {f.written[i] : i \in 1..Len(f.written)}

\* The steps the call of frame f has left at most: the allocation, the
\* copy, the rows not yet run and the return.
StepsLeft(f) ==
    IF f.pc = "alloc" THEN Size96 + 3
    ELSE IF f.pc = "copy" THEN Size96 + 2
    ELSE IF f.pc = "rows" THEN f.config.Size - f.row + 1
    ELSE 0

\* C20: RemoveWatermark always terminates and performs at most size*size
\* pixel writes (at most 48*48 under the small preset, at most 96*96 = 9216
\* under the large one), writing each pixel at most once, whatever the width
\* and height of the image.  Termination: a call that has not returned can
\* take its next step (the allocation, the copy, the return, or a pass of
\* the row loop, which runs whenever its condition holds), and every step of
\* a call lowers the number of steps it has left, which is at most 99 at the
\* start and 0 at the return.
C20_BoundedWritesAndTermination ==
    /\ [](\A g \in DOMAIN frames : WritesBounded(frames[g]))
    /\ [](\A g \in DOMAIN frames :
            \/ frames[g].pc = "done"
            \/ ENABLED GoAlloc(g)
            \/ ENABLED GoCopy(g)
            \/ ENABLED GoReturn(g)
            \/ InLoop(frames[g]))
    /\ [][\A g \in DOMAIN frames :
            frames'[g] # frames[g] =>
                /\ StepsLeft(frames'[g]) < StepsLeft(frames[g])
                /\ StepsLeft(frames'[g]) >= 0
         ]_vars

\* A call on an image above the 1024 threshold has returned after more
\* than a thousand pixel writes.
C20_Witness ==
    /\ DOMAIN frames = {1}
    /\ frames[1].pc = "done"
    /\ frames[1].config.Size = 96
    /\ Len(frames[1].written) > 1000

(***************************************************************************)
(* The command line.  A Go string is the sequence of its bytes, each a     *)
(* one-character string; the model's strings are made of the bytes of      *)
(* Bytes, listed in byte order.  The file system holds regular files,     *)
(* directories, a device and symbolic links, named by clean paths          *)
(* relative to the working directory.                                      *)
(***************************************************************************)
UpperLetters ==
    <<"A", "B", "C", "D", "E", "F", "G", "H", "I", "J", "K", "L", "M",
      "N", "O", "P", "Q", "R", "S", "T", "U", "V", "W", "X", "Y", "Z">>
LowerLetters ==
    <<"a", "b", "c", "d", "e", "f", "g", "h", "i", "j", "k", "l", "m",
      "n", "o", "p", "q", "r", "s", "t", "u", "v", "w", "x", "y", "z">>
Digits == <<"0", "1", "2", "3", "4", "5", "6", "7", "8", "9">>
Bytes ==
    <<"*", "-", ".", "/">> \o Digits \o <<"?">> \o UpperLetters
        \o <<"[", "\\", "]", "^", "_">> \o LowerLetters

\* The place of byte c in byte order.
Code(c) == CHOOSE i \in DOMAIN Bytes : Bytes[i] = c

\* a < b for Go strings: byte-wise lexicographic order.
StrLess(a, b) ==
    \E k \in 1..(Len(a) + 1) :
        /\ k <= Len(b)
        /\ SubSeq(a, 1, k - 1) = SubSeq(b, 1, k - 1)
        /\ k > Len(a) \/ Code(a[k]) < Code(b[k])

\* slices.Sort / the order of os.ReadDir, on a set of names.
RECURSIVE SortNames(_)
SortNames(names) ==
    IF names = {} THEN <<>>
    ELSE LET first == CHOOSE n \in names : \A m \in names \ {n} : StrLess(n, m)
         IN  <<first>> \o SortNames(names \ {first})

\* unicode.ToLower on one byte of the model.
ToLowerByte(c) ==
    IF \E i \in DOMAIN UpperLetters : UpperLetters[i] = c
    THEN LowerLetters[CHOOSE i \in DOMAIN UpperLetters : UpperLetters[i] = c]
    ELSE c

\* strings.ToLower(s)
ToLower(s) == [i \in 1..Len(s) |-> ToLowerByte(s[i])]

\* strings.Contains(s, substr)
Contains(s, substr) ==
    \E i \in 0..(Len(s) - Len(substr)) : SubSeq(s, i + 1, i + Len(substr)) = substr

\* strings.ContainsAny(s, chars)
ContainsAny(s, chars) == \E i \in 1..Len(s) : s[i] \in chars

\* strings.TrimSuffix(s, suffix)
TrimSuffix(s, sfx) ==
    IF Len(sfx) <= Len(s) /\ SubSeq(s, Len(s) - Len(sfx) + 1, Len(s)) = sfx
    THEN SubSeq(s, 1, Len(s) - Len(sfx))
    ELSE s

\* strings.LastIndexByte(s, c) + 1: the place of the last c in s, 0 if none.
LastIndex(s, c) ==
    IF \E i \in 1..Len(s) : s[i] = c
    THEN CHOOSE i \in 1..Len(s) : s[i] = c /\ \A j \in (i + 1)..Len(s) : s[j] # c
    ELSE 0

Slash == <<"/">>
Dot == <<".">>
DotDot == <<".", ".">>

\* strings.Split(path, "/")
RECURSIVE Elements(_)
Elements(path) ==
    IF \A i \in 1..Len(path) : path[i] # "/" THEN <<path>>
    ELSE LET i == CHOOSE k \in 1..Len(path) :
                    path[k] = "/" /\ \A j \in 1..(k - 1) : path[j] # "/"
         IN  <<SubSeq(path, 1, i - 1)>> \o Elements(SubSeq(path, i + 1, Len(path)))

\* strings.Join(elems, "/")
RECURSIVE JoinElements(_)
JoinElements(elems) ==
    IF elems = <<>> THEN <<>>
    ELSE IF Len(elems) = 1 THEN elems[1]
    ELSE elems[1] \o Slash \o JoinElements(Tail(elems))

\* The elements filepath.Clean keeps: it drops empty elements and ".",
\* and lets ".." take away the element before it (or itself, at the root).
RECURSIVE CleanElements(_, _, _)
CleanElements(elems, rooted, out) ==
    IF elems = <<>> THEN out
    ELSE LET e == Head(elems)
             rest == Tail(elems)
         IN  IF e = <<>> \/ e = Dot THEN CleanElements(rest, rooted, out)
             ELSE IF e # DotDot THEN CleanElements(rest, rooted, Append(out, e))
             ELSE IF out # <<>> /\ out[Len(out)] # DotDot
                  THEN CleanElements(rest, rooted, SubSeq(out, 1, Len(out) - 1))
             ELSE IF rooted THEN CleanElements(rest, rooted, out)
             ELSE CleanElements(rest, rooted, Append(out, e))

\* filepath.Clean(path)
Clean(path) ==
    IF path = <<>> THEN Dot
    ELSE LET rooted == path[1] = "/"
             kept   == JoinElements(CleanElements(Elements(path), rooted, <<>>))
         IN  IF rooted THEN Slash \o kept
             ELSE IF kept = <<>> THEN Dot
             ELSE kept

\* filepath.Join(dir, name)
Join(dir, name) ==
    IF dir # <<>> THEN Clean(dir \o Slash \o name)
    ELSE IF name # <<>> THEN Clean(name)
    ELSE <<>>

\* filepath.Split(path): the directory with its trailing slash, and the file.
Split(path) ==
    <<SubSeq(path, 1, LastIndex(path, "/")),
      SubSeq(path, LastIndex(path, "/") + 1, Len(path))>>

\* filepath.Dir(path)
Dir(path) == Clean(Split(path)[1])

\* path without its trailing slashes.
RECURSIVE StripSlashes(_)
StripSlashes(path) ==
    IF path # <<>> /\ path[Len(path)] = "/"
    THEN StripSlashes(SubSeq(path, 1, Len(path) - 1))
    ELSE path

\* filepath.Base(path)
Base(path) ==
    IF path = <<>> THEN Dot
    ELSE IF StripSlashes(path) = <<>> THEN Slash
    ELSE Split(StripSlashes(path))[2]

\* filepath.Ext(path): from the last dot of the last element.
Ext(path) ==
    LET file == Split(path)[2]
    IN  IF LastIndex(file, ".") = 0 THEN <<>>
        ELSE SubSeq(file, LastIndex(file, "."), Len(file))

\* filepath.ErrBadPattern
ErrBadPattern == "syntax error in pattern"

\* getEsc of path/filepath: the byte a class item starts with, "\" taken
\* off, and what follows it; an error at the end of the chunk, at "-" and
\* at "]", and when nothing follows the byte.
getEsc(chunk) ==
    LET c   == IF chunk # <<>> /\ chunk[1] = "\\" THEN Tail(chunk) ELSE chunk
        bad == [err |-> TRUE, r |-> "*", rest |-> <<>>]
    IN  IF chunk = <<>> \/ chunk[1] \in {"-", "]"} THEN bad
        ELSE IF c = <<>> THEN bad
        ELSE [err |-> Len(c) = 1, r |-> c[1], rest |-> Tail(c)]

\* Binds a value to a name: v is computed once for all its uses in F.
With(v, F(_)) == CHOOSE r \in {F(x) : x \in {v}} : TRUE

\* The loop of matchChunk that parses the ranges of a character class, up
\* to the "]" that closes it: whether byte r lies in one of them.  After
\* the match has failed the ranges are parsed without reading r.
RECURSIVE classRanges(_, _, _, _, _)
classRanges(chunk, r, failed, nrange, match) ==
    IF chunk # <<>> /\ chunk[1] = "]" /\ nrange > 0
    THEN [err |-> FALSE, rest |-> Tail(chunk), match |-> match]
    ELSE With(getEsc(chunk), LAMBDA lo :
            IF lo.err THEN [err |-> TRUE, rest |-> <<>>, match |-> FALSE]
            ELSE With(IF lo.rest[1] = "-" THEN getEsc(Tail(lo.rest)) ELSE lo, LAMBDA hi :
                    IF hi.err THEN [err |-> TRUE, rest |-> <<>>, match |-> FALSE]
                    ELSE classRanges(hi.rest, r, failed, nrange + 1,
                            match \/ (~failed /\ Code(lo.r) <= Code(r)
                                              /\ Code(r) <= Code(hi.r)))))

\* A chunk that starts with "[": whether the class is negated, and the
\* ranges that follow.
classNegated(chunk) == Len(chunk) > 1 /\ chunk[2] = "^"
classItems(chunk) == SubSeq(chunk, IF classNegated(chunk) THEN 3 ELSE 2, Len(chunk))

\* matchChunk of path/filepath: chunk (a pattern without "*") against the
\* start of s: what is left of s, whether it matched, and whether the
\* chunk is malformed.  After the match has failed the rest of the chunk
\* is still parsed.
BadChunk == [rest |-> <<>>, ok |-> FALSE, err |-> TRUE]
RECURSIVE matchChunkFrom(_, _, _)
matchChunkFrom(chunk, s, wasFailed) ==
    IF chunk = <<>>
    THEN IF wasFailed THEN [rest |-> <<>>, ok |-> FALSE, err |-> FALSE]
         ELSE [rest |-> s, ok |-> TRUE, err |-> FALSE]
    ELSE With(wasFailed \/ s = <<>>, LAMBDA failed :
         With(IF failed THEN s ELSE Tail(s), LAMBDA next :
            IF chunk[1] = "["
            THEN With(classRanges(classItems(chunk), IF failed THEN "*" ELSE s[1],
                                  failed, 0, FALSE), LAMBDA cls :
                    IF cls.err THEN BadChunk
                    ELSE matchChunkFrom(cls.rest, next,
                                        failed \/ cls.match = classNegated(chunk)))
            ELSE IF chunk[1] = "?"
            THEN matchChunkFrom(Tail(chunk), next, failed \/ s[1] = "/")
            ELSE IF chunk[1] = "\\"
            THEN IF Len(chunk) = 1 THEN BadChunk
                 ELSE matchChunkFrom(SubSeq(chunk, 3, Len(chunk)), next,
                                     failed \/ chunk[2] # s[1])
            ELSE matchChunkFrom(Tail(chunk), next, failed \/ chunk[1] # s[1])))
matchChunk(chunk, s) == matchChunkFrom(chunk, s, FALSE)

\* scanChunk of path/filepath: the leading "*"s are taken off, and the
\* chunk runs up to the next "*" outside a character class.
RECURSIVE scanEnd(_, _, _)
scanEnd(p, i, inrange) ==
    IF i > Len(p) THEN Len(p)
    ELSE IF p[i] = "\\" THEN scanEnd(p, IF i < Len(p) THEN i + 2 ELSE i + 1, inrange)
    ELSE IF p[i] = "[" THEN scanEnd(p, i + 1, TRUE)
    ELSE IF p[i] = "]" THEN scanEnd(p, i + 1, FALSE)
    ELSE IF p[i] = "*" /\ ~inrange THEN i - 1
    ELSE scanEnd(p, i + 1, inrange)
\* for len(pattern) > 0 && pattern[0] == '*' { pattern = pattern[1:] }
RECURSIVE skipStars(_)
skipStars(pattern) ==
    IF pattern # <<>> /\ pattern[1] = "*" THEN skipStars(Tail(pattern)) ELSE pattern
scanChunk(pattern) ==
    With(skipStars(pattern), LAMBDA p :
        [star  |-> Len(p) < Len(pattern),
         chunk |-> SubSeq(p, 1, scanEnd(p, 1, FALSE)),
         rest  |-> SubSeq(p, scanEnd(p, 1, FALSE) + 1, Len(p))])

\* Before it returns false, Match checks the rest of the pattern.
RECURSIVE validRest(_)
validRest(pattern) ==
    IF pattern = <<>> THEN [matched |-> FALSE, err |-> ""]
    ELSE With(scanChunk(pattern), LAMBDA sc :
            IF matchChunk(sc.chunk, <<>>).err
            THEN [matched |-> FALSE, err |-> ErrBadPattern]
            ELSE validRest(sc.rest))

\* for i := 0; i < len(name) && name[i] != Separator; i++ { ... }: the
\* first i for which the chunk matches name[i+1:] (to its end, for the
\* last chunk), with what the match leaves of name.
RECURSIVE starLoop(_, _, _, _)
starLoop(chunk, last, name, i) ==
    IF i >= Len(name) \/ name[i + 1] = "/" THEN [found |-> FALSE, err |-> FALSE, rest |-> <<>>]
    ELSE With(matchChunk(chunk, SubSeq(name, i + 2, Len(name))), LAMBDA t :
            IF t.ok /\ ~(last /\ t.rest # <<>>)
            THEN [found |-> TRUE, err |-> FALSE, rest |-> t.rest]
            ELSE IF t.err THEN [found |-> FALSE, err |-> TRUE, rest |-> <<>>]
            ELSE starLoop(chunk, last, name, i + 1))

\* filepath.Match(pattern, name): whether name matches, and the error for
\* a malformed pattern.  "*" stands for any run of bytes other than "/",
\* "?" for one such byte, "[...]" for one byte of the class.  After a chunk
\* that follows a "*" the first place where the chunk matches is taken.
RECURSIVE Match(_, _)
Match(pattern, name) ==
    IF pattern = <<>> THEN [matched |-> name = <<>>, err |-> ""]
    ELSE With(scanChunk(pattern), LAMBDA sc :
            IF sc.star /\ sc.chunk = <<>>
            THEN [matched |-> \A j \in 1..Len(name) : name[j] # "/", err |-> ""]
            ELSE With(matchChunk(sc.chunk, name), LAMBDA first :
                    IF first.ok /\ (first.rest = <<>> \/ sc.rest # <<>>)
                    THEN Match(sc.rest, first.rest)
                    ELSE IF first.err THEN [matched |-> FALSE, err |-> ErrBadPattern]
                    ELSE IF ~sc.star THEN validRest(sc.rest)
                    ELSE With(starLoop(sc.chunk, sc.rest = <<>>, name, 0), LAMBDA later :
                            IF later.found THEN Match(sc.rest, later.rest)
                            ELSE IF later.err THEN [matched |-> FALSE, err |-> ErrBadPattern]
                            ELSE validRest(sc.rest))))

\* Glob's first step: "Check pattern is well-formed", by Match(pattern, "").
BadPattern(pattern) == Match(pattern, <<>>).err # ""

\* hasMeta of path/filepath: magicChars is `*?[\` (the backslash is left
\* out on Windows only).
hasMeta(path) == ContainsAny(path, {"*", "?", "[", "\\"})

(***************************************************************************)
(* The file system: a function from the clean paths of the entries below   *)
(* the working directory, relative to it, to the entries.  An entry is a   *)
(* regular file, a directory, a directory without permissions ("locked",   *)
(* mode 000), a device that can be opened and fails every write ("full",   *)
(* as /dev/full), or a symbolic link with its target; a regular file holds *)
(* an image (its format, the type image.Decode gives it, its bounds and    *)
(* its samples) or something image.Decode rejects (Nil).  The working      *)
(* directory is the one entry, named CwdName, of the root directory,       *)
(* which the user may read and not write.                                  *)
(***************************************************************************)
\* entry.IsDir() of an entry of os.ReadDir and info.IsDir() of what os.Stat
\* or os.Lstat returned: a symbolic link is no directory.
IsDir(entry) == entry.kind \in {"dir", "locked"}

\* The name of the working directory in the root directory.
CwdName == <<"w">>

\* MAXSYMLINKS of the kernel: the links one lookup follows.
MaxSymlinks == 40

\* A place of the file system (the root directory Slash, the working
\* directory Dot, or a path of files), the place of the entry name of a
\* directory (of the root: the working directory), and the directory a
\* place is an entry of.
EntryAt(files, at) == IF at \in {Slash, Dot} THEN [kind |-> "dir", data |-> Nil] ELSE files[at]
Under(at, name) ==
    IF at = Slash THEN Dot ELSE IF at = Dot THEN name ELSE at \o Slash \o name
Parent(at) ==
    IF at \in {Slash, Dot} THEN Slash
    ELSE IF LastIndex(at, "/") = 0 THEN Dot
    ELSE SubSeq(at, 1, LastIndex(at, "/") - 1)

\* The names a path is resolved through: its elements between the slashes.
Names(path) ==
    LET NonEmpty(e) == e # <<>>
    IN  SelectSeq(Elements(path), NonEmpty)

\* The path ends with a slash, which asks for a directory.
TrailingSlash(path) == path # <<>> /\ path[Len(path)] = "/"

\* Path resolution of the kernel, from the directory at through names: the
\* error, or the place and the entry found.  A name is looked up in a
\* directory the user may search (ENOTDIR, EACCES); a symbolic link is
\* followed when names or a slash come after it or when follow is set,
\* from the directory that holds it or from the root; after a trailing
\* slash the entry found has to be a directory; creatable says that only
\* the last name is missing, in a directory the user may write.
RECURSIVE walk(_, _, _, _, _, _)
walk(files, at, names, slash, follow, hops) ==
    LET none(m)  == [err |-> m, at |-> <<>>, entry |-> Nil, creatable |-> FALSE]
        e        == Head(names)
        rest     == Tail(names)
        there(p) == IF at = Slash THEN e = CwdName ELSE p \in DOMAIN files
    IN  IF names = <<>>
        THEN IF slash /\ ~IsDir(EntryAt(files, at)) THEN none("not a directory")
             ELSE [err |-> "", at |-> at, entry |-> EntryAt(files, at), creatable |-> FALSE]
        ELSE IF ~IsDir(EntryAt(files, at)) THEN none("not a directory")
        ELSE IF EntryAt(files, at).kind = "locked" THEN none("permission denied")
        ELSE IF e = Dot THEN walk(files, at, rest, slash, follow, hops)
        ELSE IF e = DotDot THEN walk(files, Parent(at), rest, slash, follow, hops)
        ELSE With(Under(at, e), LAMBDA p :
                IF ~there(p)
                THEN IF rest = <<>> /\ ~slash /\ at # Slash
                     THEN [err |-> "no such file or directory", at |-> p, entry |-> Nil,
                           creatable |-> TRUE]
                     ELSE none("no such file or directory")
                ELSE IF EntryAt(files, p).kind = "link" /\ (rest # <<>> \/ slash \/ follow)
                THEN IF hops = 0 THEN none("too many levels of symbolic links")
                     ELSE walk(files,
                               IF files[p].target[1] = "/" THEN Slash ELSE at,
                               Names(files[p].target) \o rest,
                               slash \/ (rest = <<>> /\ TrailingSlash(files[p].target)),
                               follow, hops - 1)
                ELSE walk(files, p, rest, slash, follow, hops))

\* stat(2) and lstat(2) of path.
Lookup(files, path, follow) ==
    IF path = <<>>
    THEN [err |-> "no such file or directory", at |-> <<>>, entry |-> Nil, creatable |-> FALSE]
    ELSE walk(files, IF path[1] = "/" THEN Slash ELSE Dot, Names(path),
              TrailingSlash(path), follow, MaxSymlinks)

\* os.Stat(path): the entry, or Nil for an error.
Stat(files, path) ==
    With(Lookup(files, path, TRUE), LAMBDA r : IF r.err # "" THEN Nil ELSE r.entry)

\* os.Lstat(path): the entry, a symbolic link not followed, or Nil for an
\* error.
Lstat(files, path) ==
    With(Lookup(files, path, FALSE), LAMBDA r : IF r.err # "" THEN Nil ELSE r.entry)

\* The error of a path that os.Stat cannot resolve.
StatErr(files, path) == Lookup(files, path, TRUE).err

\* The names of the entries of the directory at a place.
EntriesAt(files, at) ==
    IF at = Slash THEN {CwdName}
    ELSE {SubSeq(q, LastIndex(q, "/") + 1, Len(q)) :
            q \in {k \in DOMAIN files : Parent(k) = at}}

\* os.ReadDir(dir): the names of the entries of dir, sorted, and the place
\* of dir, or an error.
ReadDir(files, dir) ==
    With(Lookup(files, dir, TRUE), LAMBDA r :
        IF r.err # "" THEN [entries |-> <<>>, err |-> r.err, at |-> <<>>]
        ELSE IF ~IsDir(r.entry) THEN [entries |-> <<>>, err |-> "not a directory", at |-> <<>>]
        ELSE IF r.entry.kind = "locked"
             THEN [entries |-> <<>>, err |-> "permission denied", at |-> <<>>]
        ELSE [entries |-> SortNames(EntriesAt(files, r.at)), err |-> "", at |-> r.at])

\* glob of path/filepath: the entries of dir that match pattern.
globDir(files, dir, pattern) ==
    LET Matches(n) == Match(pattern, n).matched
    IN  With(SelectSeq(ReadDir(files, dir).entries, Matches),
             LAMBDA found : [k \in 1..Len(found) |-> Join(dir, found[k])])

\* cleanGlobPath of path/filepath
cleanGlobPath(path) ==
    IF path = <<>> THEN Dot
    ELSE IF path = Slash THEN path
    ELSE SubSeq(path, 1, Len(path) - 1)

RECURSIVE Flatten(_)
Flatten(seqs) == IF seqs = <<>> THEN <<>> ELSE Head(seqs) \o Flatten(Tail(seqs))

\* filepath.Glob(pattern)
RECURSIVE Glob(_, _)
Glob(files, pattern) ==
    IF BadPattern(pattern) THEN [matches |-> <<>>, err |-> ErrBadPattern]
    ELSE IF ~hasMeta(pattern)
         THEN [matches |-> IF Lstat(files, pattern) = Nil THEN <<>> ELSE <<pattern>>,
               err |-> ""]
    ELSE LET dir  == cleanGlobPath(Split(pattern)[1])
             file == Split(pattern)[2]
         IN  IF ~hasMeta(dir) THEN [matches |-> globDir(files, dir, file), err |-> ""]
             ELSE IF dir = pattern THEN [matches |-> <<>>, err |-> ErrBadPattern]
             ELSE With(Glob(files, dir), LAMBDA m :
                      IF m.err # "" THEN m
                      ELSE [matches |->
                                Flatten([k \in 1..Len(m.matches) |->
                                            globDir(files, m.matches[k], file)]),
                            err |-> ""])

(***************************************************************************)
(* The functions of main.go.  The flag variable suffix and the file system *)
(* are passed as arguments.                                                *)
(***************************************************************************)
\* isGlobPattern(pattern)
isGlobPattern(pattern) == ContainsAny(pattern, {"*", "?", "["})

\* isSupportedImage(filename)
isSupportedImage(filename) ==
    ToLower(Ext(filename)) \in {<<".", "p", "n", "g">>, <<".", "j", "p", "g">>, <<".", "j", "p", "e", "g">>}

\* A variant of the test below that compares the bytes as they are.
AlreadyProcessedCaseSensitive(name, sfx) == Contains(name, sfx)

\* strings.Contains(strings.ToLower(name), strings.ToLower(suffix)): the
\* test of the three input modes for a file that was processed before.
AlreadyProcessed(name, sfx) == Contains(ToLower(name), ToLower(sfx))

\* expandGlob(pattern): the files and the error it returns.
expandGlob(files, sfx, pattern) ==
    LET Kept(match) ==
            /\ Stat(files, match) # Nil
            /\ ~IsDir(Stat(files, match))
            /\ isSupportedImage(match)
            /\ ~AlreadyProcessed(match, sfx)
    IN  With(Glob(files, pattern), LAMBDA g :
            IF g.err # "" THEN [files |-> <<>>, err |-> g.err]
            ELSE [files |-> SelectSeq(g.matches, Kept), err |-> ""])

\* findImageFiles(dir): the files and the error it returns.
findImageFiles(files, sfx, dir) ==
    LET read == ReadDir(files, dir)
        Kept(name) ==
            /\ ~IsDir(EntryAt(files, Under(read.at, name)))
            /\ isSupportedImage(name)
            /\ ~AlreadyProcessed(name, sfx)
        found == SelectSeq(read.entries, Kept)
    IN  IF read.err # "" THEN [files |-> <<>>, err |-> read.err]
        ELSE [files |-> [k \in 1..Len(found) |-> Join(dir, found[k])], err |-> ""]

\* generateOutputPath(inputPath, suffix)
generateOutputPath(inputPath, sfx) ==
    LET dir  == Dir(inputPath)
        ext  == Ext(inputPath)
        base == TrimSuffix(Base(inputPath), ext)
    IN  Join(dir, base \o sfx \o ext)

\* os.Create(path), which opens path for writing, creating or truncating
\* it: the file system it leaves, with the file empty, and the place of the
\* file, or Nil when the file cannot be created (a directory of the path is
\* missing or may not be written, or the path names a directory).  A
\* symbolic link is followed, and a device stays what it is.
Create(files, path) ==
    With(Lookup(files, path, TRUE), LAMBDA r :
        IF r.err = ""
        THEN IF IsDir(r.entry) THEN Nil
             ELSE IF r.entry.kind = "full" THEN [fs |-> files, at |-> r.at]
             ELSE [fs |-> [files EXCEPT ![r.at] = [kind |-> "file", data |-> Nil]],
                   at |-> r.at]
        ELSE IF r.creatable
        THEN [fs |-> [p \in DOMAIN files \cup {r.at} |->
                        IF p = r.at THEN [kind |-> "file", data |-> Nil] ELSE files[p]],
              at |-> r.at]
        ELSE Nil)

\* color.RGBToYCbCr, as the JPEG encoder applies it to the R, G, B of an
\* *image.RGBA.
RGBToYCbCr(c) ==
    [Y  |-> (19595 * c.R + 38470 * c.G + 7471 * c.B + 32768) \div 65536,
     Cb |-> Shift16(32768 * c.B - 11056 * c.R - 21712 * c.G + 8421376),
     Cr |-> Shift16(32768 * c.R - 27440 * c.G - 5328 * c.B + 8421376)]

\* The PNG encoder on a pixel of an *image.RGBA that is not opaque: the
\* non-premultiplied pixel it stores, each channel a uint8.
Unpremultiply(c) ==
    IF c.A = 0 THEN ZeroColor
    ELSE IF c.A = 255 THEN c
    ELSE RGBA((((c.R * 65535) \div c.A) \div 256) % 256,
              (((c.G * 65535) \div c.A) \div 256) % 256,
              (((c.B * 65535) \div c.A) \div 256) % 256, c.A)

(***************************************************************************)
(* image/jpeg, as jpeg.Encode writes an *image.RGBA and image.Decode reads *)
(* the file back (the library of the Go releases up to 1.24).  The values  *)
(* stay far inside an int32.                                               *)
(***************************************************************************)
\* &jpeg.Options{Quality: 95}
JpegQuality == 95

\* unzig maps from the zig-zag ordering to the natural ordering.
unzig ==
    << 0,  1,  8, 16,  9,  2,  3, 10, 17, 24, 32, 25, 18, 11,  4,  5,
      12, 19, 26, 33, 40, 48, 41, 34, 27, 20, 13,  6,  7, 14, 21, 28,
      35, 42, 49, 56, 57, 50, 43, 36, 29, 22, 15, 23, 30, 37, 44, 51,
      58, 59, 52, 45, 38, 31, 39, 46, 53, 60, 61, 54, 47, 55, 62, 63>>

\* The place of a coefficient in the zig-zag ordering, from 1.
zigOf == [i \in 0..63 |-> CHOOSE zig \in 1..64 : unzig[zig] = i]

\* The unscaled quantization tables in zig-zag order: luminance, chrominance.
unscaledQuant ==
    [luminance |->
        <<16, 11, 12, 14, 12, 10, 16, 14, 13, 14, 18, 17, 16, 19, 24, 40,
          26, 24, 22, 22, 24, 49, 35, 37, 29, 40, 58, 51, 61, 60, 57, 51,
          56, 55, 64, 72, 92, 78, 64, 68, 87, 69, 55, 56, 80, 109, 81, 87,
          95, 98, 103, 104, 103, 62, 77, 113, 121, 112, 100, 120, 92, 101, 103, 99>>,
     chrominance |->
        <<17, 18, 18, 24, 21, 24, 47, 26, 26, 47, 99, 66, 56, 66, 99, 99>>
        \o [zig \in 1..48 |-> 99]]

\* The tables scaled for the quality, each entry kept in 1..255:
\* quant[q][i] divides the coefficient at the natural place i.
quant ==
    LET scale == IF JpegQuality < 50 THEN 5000 \div JpegQuality ELSE 200 - JpegQuality * 2
        entry(x) == With((x * scale + 50) \div 100, LAMBDA v :
                        IF v < 1 THEN 1 ELSE IF v > 255 THEN 255 ELSE v)
    IN  [q \in DOMAIN unscaledQuant |-> [i \in 0..63 |-> entry(unscaledQuant[q][zigOf[i]])]]

\* div returns a/b rounded to the nearest integer, instead of rounded to zero.
div(a, b) ==
    IF a >= 0 THEN (a + b \div 2) \div b ELSE -((-a + b \div 2) \div b)

fix_0_298631336 == 2446
fix_0_390180644 == 3196
fix_0_541196100 == 4433
fix_0_765366865 == 6270
fix_0_899976223 == 7373
fix_1_175875602 == 9633
fix_1_501321110 == 12299
fix_1_847759065 == 15137
fix_1_961570560 == 16069
fix_2_053119869 == 16819
fix_2_562915447 == 20995
fix_3_072711026 == 25172
constBits == 13
pass1Bits == 2
centerJSample == 128

\* One pass of fdct over the eight values s[0]..s[7] of a row (first) or
\* of a column: the eight values it leaves.  x >> n is x \div 2^n.
fdctPass(s, first) ==
    LET shift == IF first THEN constBits - pass1Bits ELSE constBits + pass1Bits
        round == 2 ^ (shift - 1)
        a0 == s[0] + s[7]
        a1 == s[1] + s[6]
        a2 == s[2] + s[5]
        a3 == s[3] + s[4]
        a10 == a0 + a3
        a12 == a0 - a3
        a11 == a1 + a2
        a13 == a1 - a2
        y1 == (a12 + a13) * fix_0_541196100 + round
        tmp0 == s[0] - s[7]
        tmp1 == s[1] - s[6]
        tmp2 == s[2] - s[5]
        tmp3 == s[3] - s[4]
        tmp10 == (tmp0 + tmp3) * (-fix_0_899976223)
        tmp11 == (tmp1 + tmp2) * (-fix_2_562915447)
        z1 == (tmp0 + tmp2 + tmp1 + tmp3) * fix_1_175875602 + round
        tmp12 == (tmp0 + tmp2) * (-fix_0_390180644) + z1
        tmp13 == (tmp1 + tmp3) * (-fix_1_961570560) + z1
    IN  [k \in 0..7 |->
            CASE k = 0 -> IF first THEN (a10 + a11 - 8 * centerJSample) * (2 ^ pass1Bits)
                          ELSE (a10 + a11 + 2 ^ (pass1Bits - 1)) \div (2 ^ pass1Bits)
              [] k = 4 -> IF first THEN (a10 - a11) * (2 ^ pass1Bits)
                          ELSE (a10 - a11 + 2 ^ (pass1Bits - 1)) \div (2 ^ pass1Bits)
              [] k = 2 -> (y1 + a12 * fix_0_765366865) \div (2 ^ shift)
              [] k = 6 -> (y1 - a13 * fix_1_847759065) \div (2 ^ shift)
              [] k = 1 -> (tmp0 * fix_1_501321110 + tmp10 + tmp12) \div (2 ^ shift)
              [] k = 3 -> (tmp1 * fix_3_072711026 + tmp11 + tmp13) \div (2 ^ shift)
              [] k = 5 -> (tmp2 * fix_2_053119869 + tmp11 + tmp12) \div (2 ^ shift)
              [] k = 7 -> (tmp3 * fix_0_298631336 + tmp10 + tmp13) \div (2 ^ shift)]

\* fdct performs a forward DCT on an 8x8 block of coefficients, including a
\* level shift: the rows, then the columns, the results scaled up by 8.
fdct(b) ==
    With([y \in 0..7 |-> fdctPass([x \in 0..7 |-> b[8 * y + x]], TRUE)], LAMBDA rows :
    With([x \in 0..7 |-> fdctPass([y \in 0..7 |-> rows[y][x]], FALSE)], LAMBDA cols :
        [i \in 0..63 |-> cols[i % 8][i \div 8]]))

w1 == 2841
w2 == 2676
w3 == 2408
w5 == 1609
w6 == 1108
w7 == 565
w1pw7 == w1 + w7
w1mw7 == w1 - w7
w2pw6 == w2 + w6
w2mw6 == w2 - w6
w3pw5 == w3 + w5
w3mw5 == w3 - w5
r2 == 181

\* The horizontal 1-D IDCT of idct on the eight values of a row; it is
\* trivial when all the AC components are zero.
idctRow(s) ==
    IF \A k \in 1..7 : s[k] = 0 THEN [k \in 0..7 |-> s[0] * 8]
    ELSE
    LET \* Prescale.
        p0 == s[0] * 2048 + 128
        p1 == s[4] * 2048
        \* Stage 1.
        s8 == w7 * (s[1] + s[7])
        s4 == s8 + w1mw7 * s[1]
        s5 == s8 - w1pw7 * s[7]
        t8 == w3 * (s[5] + s[3])
        s6 == t8 - w3mw5 * s[5]
        s7 == t8 - w3pw5 * s[3]
        \* Stage 2.
        x8 == p0 + p1
        x0 == p0 - p1
        u1 == w6 * (s[2] + s[6])
        x2 == u1 - w2pw6 * s[6]
        x3 == u1 + w2mw6 * s[2]
        x1 == s4 + s6
        x4 == s4 - s6
        x6 == s5 + s7
        x5 == s5 - s7
        \* Stage 3.
        y7 == x8 + x3
        y8 == x8 - x3
        y3 == x0 + x2
        y0 == x0 - x2
        y2 == (r2 * (x4 + x5) + 128) \div 256
        y4 == (r2 * (x4 - x5) + 128) \div 256
    IN  \* Stage 4.
        [k \in 0..7 |->
            CASE k = 0 -> (y7 + x1) \div 256
              [] k = 1 -> (y3 + y2) \div 256
              [] k = 2 -> (y0 + y4) \div 256
              [] k = 3 -> (y8 + x6) \div 256
              [] k = 4 -> (y8 - x6) \div 256
              [] k = 5 -> (y0 - y4) \div 256
              [] k = 6 -> (y3 - y2) \div 256
              [] k = 7 -> (y7 - x1) \div 256]

\* The vertical 1-D IDCT of idct on the eight values of a column.
idctCol(s) ==
    LET \* Prescale.
        p0 == s[0] * 256 + 8192
        p1 == s[4] * 256
        \* Stage 1.
        s8 == w7 * (s[1] + s[7]) + 4
        s4 == (s8 + w1mw7 * s[1]) \div 8
        s5 == (s8 - w1pw7 * s[7]) \div 8
        t8 == w3 * (s[5] + s[3]) + 4
        s6 == (t8 - w3mw5 * s[5]) \div 8
        s7 == (t8 - w3pw5 * s[3]) \div 8
        \* Stage 2.
        x8 == p0 + p1
        x0 == p0 - p1
        u1 == w6 * (s[2] + s[6]) + 4
        x2 == (u1 - w2pw6 * s[6]) \div 8
        x3 == (u1 + w2mw6 * s[2]) \div 8
        x1 == s4 + s6
        x4 == s4 - s6
        x6 == s5 + s7
        x5 == s5 - s7
        \* Stage 3.
        y7 == x8 + x3
        y8 == x8 - x3
        y3 == x0 + x2
        y0 == x0 - x2
        y2 == (r2 * (x4 + x5) + 128) \div 256
        y4 == (r2 * (x4 - x5) + 128) \div 256
    IN  \* Stage 4.
        [k \in 0..7 |->
            CASE k = 0 -> (y7 + x1) \div 16384
              [] k = 1 -> (y3 + y2) \div 16384
              [] k = 2 -> (y0 + y4) \div 16384
              [] k = 3 -> (y8 + x6) \div 16384
              [] k = 4 -> (y8 - x6) \div 16384
              [] k = 5 -> (y0 - y4) \div 16384
              [] k = 6 -> (y3 - y2) \div 16384
              [] k = 7 -> (y7 - x1) \div 16384]

\* idct performs a 2-D Inverse Discrete Cosine Transformation: the rows,
\* then the columns.
idct(src) ==
    With([y \in 0..7 |-> idctRow([x \in 0..7 |-> src[8 * y + x]])], LAMBDA rows :
    With([x \in 0..7 |-> idctCol([y \in 0..7 |-> rows[y][x]])], LAMBDA cols :
        [i \in 0..63 |-> cols[i % 8][i \div 8]]))

\* writeBlock on the 8x8 block b with the table q, and the decoder on what
\* it wrote: the coefficients of fdct are divided by 8 times the table's
\* entries (the entropy coding loses nothing), multiplied by the entries
\* again and transformed back, each sample shifted by 128 and clipped to a
\* uint8.
writeBlock(b, q) ==
    With(fdct(b), LAMBDA coef :
    With(idct([i \in 0..63 |-> div(coef[i], 8 * quant[q][i]) * quant[q][i]]), LAMBDA dst :
        [i \in 0..63 |-> IF dst[i] < -128 THEN 0
                         ELSE IF dst[i] > 127 THEN 255 ELSE dst[i] + 128]))

\* rgbaToYCbCr(m, p, ...): the 8x8 block of [Y, Cb, Cr] samples at p; past
\* the right and the bottom edge the last column and row are repeated.
rgbaToYCbCr(rect, buf, p) ==
    [i \in 0..63 |->
        RGBToYCbCr(PixAt(buf,
            IF p.X + (i % 8) > rect.Max.X - 1 THEN rect.Max.X - 1 ELSE p.X + (i % 8),
            IF p.Y + (i \div 8) > rect.Max.Y - 1 THEN rect.Max.Y - 1 ELSE p.Y + (i \div 8)))]

\* scale scales the 16x16 region represented by the 4 src blocks to the
\* 8x8 dst block: the mean of each 2x2 group, rounded.
scale(src) ==
    [k \in 0..63 |->
        With(2 * (k \div 32) + ((k % 8) \div 4), LAMBDA i :
        With(16 * ((k \div 8) % 4) + 2 * (k % 4), LAMBDA j :
            (src[i][j] + src[i][j + 1] + src[i][j + 8] + src[i][j + 9] + 2) \div 4))]

\* writeSOS on the 16x16 region at (x, y), a minimum coded unit: four
\* blocks of Y and, subsampled 4:2:0, one block each of Cb and Cr, as the
\* decoder reads them.
writeMCU(rect, buf, x, y) ==
    With([i \in 0..3 |-> rgbaToYCbCr(rect, buf, [X |-> x + (i % 2) * 8, Y |-> y + (i \div 2) * 8])],
         LAMBDA s :
        [Y  |-> [i \in 0..3 |-> writeBlock([k \in 0..63 |-> s[i][k].Y], "luminance")],
         Cb |-> writeBlock(scale([i \in 0..3 |-> [k \in 0..63 |-> s[i][k].Cb]]), "chrominance"),
         Cr |-> writeBlock(scale([i \in 0..3 |-> [k \in 0..63 |-> s[i][k].Cr]]), "chrominance")])

\* jpeg.Encode(w, m, &jpeg.Options{Quality: 95}) on an *image.RGBA, and the
\* *image.YCbCr that image.Decode makes of the file: its rectangle starts
\* at the origin, each pixel has its own Y, and the four pixels of a 2x2
\* group share one Cb and one Cr.  The alpha channel is not written.
jpegEncode(rect, buf) ==
    With([my \in 0..((Dy(rect) - 1) \div 16) |-> [mx \in 0..((Dx(rect) - 1) \div 16) |->
            writeMCU(rect, buf, rect.Min.X + 16 * mx, rect.Min.Y + 16 * my)]], LAMBDA mcu :
        [format |-> "jpeg", Kind |-> "YCbCr", Rect |-> Rect(0, 0, Dx(rect), Dy(rect)),
         buf |-> [bg |-> Backdrop([Y |-> 0, Cb |-> 128, Cr |-> 128], 0),
                  px |-> [y \in 0..(Dy(rect) - 1) |-> [x \in 0..(Dx(rect) - 1) |->
                            With(mcu[y \div 16][x \div 16], LAMBDA m :
                                [Y  |-> m.Y[2 * ((y % 16) \div 8) + ((x % 16) \div 8)][8 * (y % 8) + (x % 8)],
                                 Cb |-> m.Cb[8 * ((y % 16) \div 2) + ((x % 16) \div 2)],
                                 Cr |-> m.Cr[8 * ((y % 16) \div 2) + ((x % 16) \div 2)]])]]]])

\* switch format { case "png": png.Encode ...; case "jpeg": jpeg.Encode ...
\* Quality: 95; default: png.Encode }: what the file holds afterwards, as
\* image.Decode will find it.  An opaque image is written as a truecolour
\* PNG, any other with an alpha channel; a JPEG is written with the loss of
\* its encoder.
Encode(format, rect, buf) ==
    IF format = "jpeg" THEN jpegEncode(rect, buf)
    ELSE IF \A x \in rect.Min.X..(rect.Max.X - 1), y \in rect.Min.Y..(rect.Max.Y - 1) :
                PixAt(buf, x, y).A = 255
    THEN [format |-> "png", Kind |-> "RGBA", Rect |-> rect, buf |-> buf]
    ELSE [format |-> "png", Kind |-> "NRGBA", Rect |-> rect,
          buf |-> MapPixels(buf, Unpremultiply)]

\* processImage(engine, inputPath): the error it returns, the lines it
\* prints to os.Stdout, the path it saved, and the heap and the file system
\* it leaves.  os.Open fails on a missing path and on a directory the user
\* may not read; image.Decode fails on a directory, on a device and on a
\* file that holds no image; the encoder fails when the output cannot be
\* written.
processImage(e, h, files, sfx, verbose, quiet, inputPath) ==
    LET failed(m) == [err |-> m, out |-> <<>>, saved |-> <<>>, heap |-> h, fs |-> files]
        \* if verbose { fmt.Printf("Processing: ...") ... fmt.Printf("  Watermark: ...") }
        lines(data, found) ==
            <<[out |-> "stdout", what |-> "Processing", path |-> inputPath,
               width |-> Dx(data.Rect), height |-> Dy(data.Rect), format |-> data.format],
              [out |-> "stdout", what |-> "Watermark", path |-> <<>>,
               size |-> found.config.Size, x |-> found.position.Min.X,
               y |-> found.position.Min.Y]>>
        \* os.Create, the encoder and the line "Saved"
        write(format, shown, r, outputPath, created) ==
            IF created = Nil
            THEN [err |-> "failed to create output file", out |-> shown,
                  saved |-> <<>>, heap |-> r.heap, fs |-> files]
            ELSE IF created.fs[created.at].kind = "full"
            THEN [err |-> "failed to encode output", out |-> shown,
                  saved |-> <<>>, heap |-> r.heap, fs |-> created.fs]
            ELSE [err |-> "",
                  out |-> shown \o (IF quiet THEN <<>>
                                    ELSE <<[out |-> "stdout", what |-> "Saved",
                                            path |-> outputPath]>>),
                  saved |-> outputPath, heap |-> r.heap,
                  fs |-> [created.fs EXCEPT ![created.at].data =
                              Encode(format, r.image.Rect, r.heap[r.image.Pix])]]
    IN  With(Stat(files, inputPath), LAMBDA st :
            IF st = Nil \/ st.kind = "locked" THEN failed("failed to open file")
            ELSE IF st.kind # "file" \/ st.data = Nil THEN failed("failed to decode image")
            ELSE With(generateOutputPath(inputPath, sfx), LAMBDA outputPath :
                     write(st.data.format,
                           IF verbose
                           THEN lines(st.data, GetWatermarkInfo(Dx(st.data.Rect), Dy(st.data.Rect)))
                           ELSE <<>>,
                           RemoveWatermark(e, Append(h, st.data.buf),
                                           [Pix |-> NewBufferId(h), Rect |-> st.data.Rect,
                                            Kind |-> st.data.Kind]),
                           outputPath,
                           Create(files, outputPath))))

(***************************************************************************)
(* The inputs of the command line.                                         *)
(***************************************************************************)
\* The values of the -s flag: the default, one in capitals, the empty
\* string, one with a path separator and one with a dot.
Suffixes == {<<"_", "c", "l", "e", "a", "n">>, <<"_", "C", "L", "E", "A", "N">>, <<>>, <<"/", "x">>, <<".", "x">>}

\* A small PNG picture of one colour: a truecolour PNG when the colour is
\* opaque, which image.Decode returns as an *image.RGBA, and otherwise one
\* with an alpha channel, returned as an *image.NRGBA.
Photo(c) ==
    [format |-> "png", Kind |-> IF c.A = 255 THEN "RGBA" ELSE "NRGBA",
     Rect |-> Rect(0, 0, 2, 2), buf |-> [bg |-> Backdrop(c, 0), px |-> NoRows]]
\* A small JPEG picture of one colour, returned as an *image.YCbCr.
JpegPhoto(y, cb, cr) ==
    [format |-> "jpeg", Kind |-> "YCbCr", Rect |-> Rect(0, 0, 2, 2),
     buf |-> [bg |-> Backdrop([Y |-> y, Cb |-> cb, Cr |-> cr], 0), px |-> NoRows]]
\* A small JPEG picture with one dark pixel at its origin: writing it again
\* as a JPEG changes its other pixels.
JpegSpot(dark, y, cb, cr) ==
    [format |-> "jpeg", Kind |-> "YCbCr", Rect |-> Rect(0, 0, 2, 2),
     buf |-> PixSet(Uniform([Y |-> y, Cb |-> cb, Cr |-> cr]), 0, 0,
                    [Y |-> dark, Cb |-> cb, Cr |-> cr])]
File(data) == [kind |-> "file", data |-> data]
Directory == [kind |-> "dir", data |-> Nil]
\* A symbolic link to target, a path from the directory that holds the link.
Link(target) == [kind |-> "link", data |-> Nil, target |-> target]

\* The working directory: images, images processed before, a text file, a
\* file without extension, a directory with a nested directory, with a
\* directory named like an image and with a file that is no image, an empty
\* directory, a directory that cannot be read, a directory whose name
\* holds the default suffix, a directory named like an image without its
\* extension, a device that fails every write, and a directory of symbolic
\* links named like images: to a regular file, to a directory and to
\* nothing.  Files named as JPEGs hold JPEGs, one of one colour and one that
\* a JPEG encoder does not keep as it is; the PNGs are opaque or have an
\* alpha channel.
WorkDir ==
    (<<"a", ".", "p", "n", "g">> :> File(Photo(TestColor))) @@
    (<<"a">> :> Directory) @@
    (<<"a", "/", "x", ".", "p", "n", "g">> :> File(Photo(Bright))) @@
    (<<"a", "_", "c", "l", "e", "a", "n", ".", "p", "n", "g">> :> File(Photo(Bright))) @@
    (<<"B", ".", "J", "P", "G">> :> File(JpegSpot(16, 235, 128, 128))) @@
    (<<"c", "_", "C", "l", "e", "a", "n", ".", "j", "p", "e", "g">> :> File(JpegPhoto(90, 128, 128))) @@
    (<<"n", "o", "t", "e", "s", ".", "t", "x", "t">> :> File(Nil)) @@
    (<<"i", "m", "a", "g", "e">> :> File(Photo(TestColor))) @@
    (<<"i", "m", "a", "g", "e", ".", "x">> :> [kind |-> "full", data |-> Nil]) @@
    (<<"d">> :> Directory) @@
    (<<"d", "/", "e", ".", "p", "n", "g">> :> File(Photo(TestColor))) @@
    (<<"d", "/", "e", "_", "c", "l", "e", "a", "n", ".", "p", "n", "g">> :> File(Photo(Bright))) @@
    (<<"d", "/", "b", "a", "d", ".", "p", "n", "g">> :> File(Nil)) @@
    (<<"d", "/", "p", "i", "c", "s", ".", "p", "n", "g">> :> Directory) @@
    (<<"d", "/", "s", "u", "b">> :> Directory) @@
    (<<"d", "/", "s", "u", "b", "/", "f", ".", "p", "n", "g">> :> File(Photo(TestColor))) @@
    (<<"e", "m", "p", "t", "y">> :> Directory) @@
    (<<"l">> :> Directory) @@
    (<<"l", "/", "f", ".", "p", "n", "g">> :> Link(<<".", ".", "/", "a", ".", "p", "n", "g">>)) @@
    (<<"l", "/", "g", ".", "p", "n", "g">> :> Link(<<"g", "o", "n", "e">>)) @@
    (<<"l", "/", "k", ".", "p", "n", "g">> :> Link(<<".", ".", "/", "d">>)) @@
    (<<"l", "o", "c", "k", "e", "d">> :> [kind |-> "locked", data |-> Nil]) @@
    (<<"o", "u", "t", "_", "c", "l", "e", "a", "n">> :> Directory) @@
    (<<"o", "u", "t", "_", "c", "l", "e", "a", "n", "/", "g", ".", "p", "n", "g">> :> File(Photo(TestColor)))

\* The arguments of one run: a file, a directory or a pattern, or a few.
ArgLists ==
    {<<a>> : a \in {<<"a", ".", "p", "n", "g">>, <<"a", "_", "c", "l", "e", "a", "n", ".", "p", "n", "g">>, <<"c", "_", "C", "l", "e", "a", "n", ".", "j", "p", "e", "g">>, <<"B", ".", "J", "P", "G">>, <<"n", "o", "t", "e", "s", ".", "t", "x", "t">>,
                    <<"i", "m", "a", "g", "e">>, <<"m", "i", "s", "s", "i", "n", "g", ".", "p", "n", "g">>, <<"d">>, <<"d", "/">>, <<"d", "/", "e", ".", "p", "n", "g">>, <<"d", "/", "b", "a", "d", ".", "p", "n", "g">>,
                    <<"d", "/", "p", "i", "c", "s", ".", "p", "n", "g">>, <<"e", "m", "p", "t", "y">>, <<"l", "o", "c", "k", "e", "d">>, <<"o", "u", "t", "_", "c", "l", "e", "a", "n">>,
                    <<"o", "u", "t", "_", "c", "l", "e", "a", "n", "/", "g", ".", "p", "n", "g">>, <<"*", ".", "p", "n", "g">>, <<"*">>, <<"?", ".", "p", "n", "g">>, <<"d", "/", "*">>, <<"*", "/", "*", ".", "p", "n", "g">>,
                    <<"o", "u", "t", "_", "c", "l", "e", "a", "n", "/", "*", ".", "p", "n", "g">>, <<"*", ".", "g", "i", "f">>, <<"a", "[">>,
                    <<"\\", "d", "/", "*">>, <<"d", "\\", "/", "*">>, <<"a", "\\", ".", "p", "n", "g">>,
                    <<"a", ".", "p", "n", "g", "/", ".">>, <<"d", "/", ".", ".", "/", "a", ".", "p", "n", "g">>, <<"l">>, <<"l", "/", "k", ".", "p", "n", "g">>,
                    <<"l", "/", "f", ".", "p", "n", "g">>, <<"l", "/", "*", ".", "p", "n", "g">>}}
    \cup {<<>>, <<<<"c", "_", "C", "l", "e", "a", "n", ".", "j", "p", "e", "g">>, <<"d">>, <<"*", ".", "p", "n", "g">>>>, <<<<"a", ".", "p", "n", "g">>, <<"d", "/", "b", "a", "d", ".", "p", "n", "g">>, <<"a", ".", "p", "n", "g">>>>,
          <<<<"a", ".", "p", "n", "g">>, <<"a">>>>, <<<<"[", "A", "-", "Z", "]", ".", "*">>, <<"i", "m", "a", "g", "e">>>>}

\* The directories, patterns and paths the functions are called with directly.
DirInputs == {<<"a", ".", "p", "n", "g", "/", ".">>, <<"l">>, <<"l", "/", "k", ".", "p", "n", "g">>, <<".", ".">>, <<"l", "o", "c", "k", "e", "d", "/", ".">>,
              <<"a", ".", "p", "n", "g", "/">>, <<"d">>, <<"d", "/">>, <<".">>, <<"e", "m", "p", "t", "y">>, <<"l", "o", "c", "k", "e", "d">>, <<"m", "i", "s", "s", "i", "n", "g">>, <<"a", ".", "p", "n", "g">>, <<"d", "/", "s", "u", "b">>, <<"o", "u", "t", "_", "c", "l", "e", "a", "n">>}
PatternInputs ==
    {<<"[", "a", "b", "]", ".", "p", "n", "g">>, <<"[", "]">>, <<"d", "/", "[", "^", "a", "-", "d", "]", "*">>, <<"*", ".", "p", "n", "g">>, <<"*">>, <<"*", ".", "*">>, <<"?", ".", "p", "n", "g">>, <<"d", "/", "*">>, <<"d", "/", "*", ".", "p", "n", "g">>, <<"*", "/", "*", ".", "p", "n", "g">>, <<"o", "u", "t", "_", "c", "l", "e", "a", "n", "/", "*", ".", "p", "n", "g">>,
     <<"*", ".", "g", "i", "f">>, <<"a", "[">>, <<"a", ".", "p", "n", "g">>, <<"d", "/", "p", "i", "c", "s", ".", "p", "n", "g">>, <<"m", "i", "s", "s", "i", "n", "g", ".", "p", "n", "g">>, <<"l", "o", "c", "k", "e", "d", "/", "*">>,
     <<"\\", "d", "/", "*">>, <<"d", "\\", "/", "*">>, <<"a", "\\", ".", "p", "n", "g">>, <<"\\", "a", ".", "p", "n", "g">>, <<"d", "/", "\\", "e", ".", "p", "n", "g">>,
     <<"a", ".", "p", "n", "g", "/", ".">>, <<"l", "/", "*">>, <<"l", "/", "g", ".", "p", "n", "g">>, <<"l", "/", "k", ".", "p", "n", "g", "/", "*">>, <<"d", "/", ".">>}
PathInputs ==
    {<<"i", "m", "a", "g", "e", ".", "p", "n", "g">>, <<"i", "m", "a", "g", "e", ".", "j", "p", "g">>, <<"p", "h", "o", "t", "o", ".", "j", "p", "e", "g">>, <<"p", "a", "t", "h", "/", "t", "o", "/", "i", "m", "a", "g", "e", ".", "p", "n", "g">>, <<".", "/", "i", "m", "a", "g", "e", ".", "p", "n", "g">>,
     <<"/", "a", "b", "s", "/", "p", "h", "o", "t", "o", ".", "J", "P", "G">>, <<"i", "m", "a", "g", "e">>, <<"a", ".", "b", "/", "c">>, <<".", "p", "n", "g">>, <<"d", "/", "e", ".", "p", "n", "g">>, <<"x", ".", "t", "a", "r", ".", "p", "n", "g">>}

\* One line of output.
Line(out, what, path) == [out |-> out, what |-> what, path |-> path]

\* The program as main or a test finds it.
CliInit ==
    /\ bg48PNG \in Assets(48)
    /\ bg96PNG = [ok |-> TRUE, Rect |-> Rect(0, 0, Size96, Size96)]
    /\ engine = Nil
    /\ err = ""
    /\ heap = <<>>
    /\ img = Nil /\ result = Nil /\ calls = 0 /\ info = Nil /\ writes = 0
    /\ frames = <<>>
    /\ suffix \in Suffixes
    /\ fs = WorkDir
    /\ main = Nil

\* files, err := findImageFiles(dir), called on its own.
DoFindImageFiles ==
    /\ main = Nil /\ info = Nil
    /\ \E dir \in DirInputs :
        info' = [op |-> "findImageFiles", arg |-> dir] @@ findImageFiles(fs, suffix, dir)
    /\ UNCHANGED <<engine, err, heap, img, result, calls, writes, bg48PNG, bg96PNG, frames, cliVars>>

\* files, err := expandGlob(pattern), called on its own.
DoExpandGlob ==
    /\ main = Nil /\ info = Nil
    /\ \E pattern \in PatternInputs :
        info' = [op |-> "expandGlob", arg |-> pattern] @@ expandGlob(fs, suffix, pattern)
    /\ UNCHANGED <<engine, err, heap, img, result, calls, writes, bg48PNG, bg96PNG, frames, cliVars>>

\* result := generateOutputPath(inputPath, suffix), called on its own.
DoGenerateOutputPath ==
    /\ main = Nil /\ info = Nil
    /\ \E inputPath \in PathInputs :
        info' = [op |-> "generateOutputPath", arg |-> inputPath,
                 path |-> generateOutputPath(inputPath, suffix)]
    /\ UNCHANGED <<engine, err, heap, img, result, calls, writes, bg48PNG, bg96PNG, frames, cliVars>>

\* main, from flag.Parse to the loop over the arguments: it exits with
\* status 1 when there is no argument or the engine cannot be built.
MainStart ==
    /\ main = Nil /\ info = Nil
    /\ \E built \in {NewEngine(bg48PNG, bg96PNG)} :
           \E args \in ArgLists, quiet \in BOOLEAN, verbose \in BOOLEAN :
            LET locals == [pc |-> "args", args |-> args, quiet |-> quiet,
                           verbose |-> verbose, next |-> 1,
                           files |-> <<>>, done |-> 0, successCount |-> 0,
                           processed |-> <<>>, summary |-> <<>>,
                           log |-> <<>>, status |-> 0]
            IN  IF Len(args) = 0
                THEN /\ main' = [locals EXCEPT !.pc = "exit", !.status = 1,
                                    !.log = <<Line("stderr", "usage", <<>>)>>]
                     /\ UNCHANGED <<engine, err>>
                ELSE /\ engine' = built[1]
                     /\ err' = built[2]
                     /\ main' = IF built[2] = "" THEN locals
                                ELSE [locals EXCEPT !.pc = "exit", !.status = 1,
                                        !.log = <<Line("stderr", "Error initializing engine", <<>>)>>]
    /\ UNCHANGED <<heap, img, result, calls, info, writes, bg48PNG, bg96PNG, frames, suffix, fs>>

\* The argument the loop of main is at.
AtArg == main # Nil /\ main.pc = "args" /\ main.next <= Len(main.args)
inputPath == main.args[main.next]

\* The loop goes on to the next argument with these files added and this
\* line printed.
Continue(added, lines) ==
    /\ main' = [main EXCEPT !.next = @ + 1, !.files = @ \o added, !.log = @ \o lines]
    /\ UNCHANGED <<engine, err, heap, img, result, calls, info, writes, bg48PNG, bg96PNG, frames, suffix, fs>>

\* if isGlobPattern(inputPath) { matched, err := expandGlob(inputPath) ... }
ArgGlob ==
    /\ AtArg /\ isGlobPattern(inputPath)
    /\ \E matched \in {expandGlob(fs, suffix, inputPath)} :
        IF matched.err # ""
        THEN Continue(<<>>, <<Line("stderr", "Error expanding glob pattern", inputPath)>>)
        ELSE Continue(matched.files, <<>>)

\* info, err := os.Stat(inputPath); if err != nil { ...; continue }
ArgMissing ==
    /\ AtArg /\ ~isGlobPattern(inputPath)
    /\ Stat(fs, inputPath) = Nil
    /\ Continue(<<>>, <<Line("stderr", "Error accessing path", inputPath)>>)

\* if info.IsDir() { dirFiles, err := findImageFiles(inputPath) ... }
ArgDir ==
    /\ AtArg /\ ~isGlobPattern(inputPath)
    /\ Stat(fs, inputPath) # Nil /\ IsDir(Stat(fs, inputPath))
    /\ \E dirFiles \in {findImageFiles(fs, suffix, inputPath)} :
        IF dirFiles.err # ""
        THEN Continue(<<>>, <<Line("stderr", "Error scanning directory", inputPath)>>)
        ELSE Continue(dirFiles.files, <<>>)

\* else: a single file, skipped if it already has the output suffix.
ArgFile ==
    /\ AtArg /\ ~isGlobPattern(inputPath)
    /\ Stat(fs, inputPath) # Nil /\ ~IsDir(Stat(fs, inputPath))
    /\ IF AlreadyProcessed(inputPath, suffix)
       THEN Continue(<<>>, IF main.quiet THEN <<>>
                           ELSE <<Line("stdout", "Skipping", inputPath)>>)
       ELSE Continue(<<inputPath>>, <<>>)

\* After the loop: exit with status 1 if no file was found.
Collected ==
    /\ main # Nil /\ main.pc = "args" /\ main.next > Len(main.args)
    /\ main' = IF Len(main.files) = 0
               THEN [main EXCEPT !.pc = "exit", !.status = 1,
                        !.log = @ \o <<Line("stderr", "No image files found to process", <<>>)>>]
               ELSE [main EXCEPT !.pc = "batch",
                        !.log = @ \o (IF main.quiet THEN <<>>
                                      ELSE <<Line("stdout", "Found", <<>>)>>)]
    /\ UNCHANGED <<engine, err, heap, img, result, calls, info, writes, bg48PNG, bg96PNG, frames, suffix, fs>>

\* A variant of the batch loop that ends at the first error.
BatchStoppingOnError ==
    /\ main # Nil /\ main.pc = "batch" /\ main.done < Len(main.files)
    /\ \E file \in {main.files[main.done + 1]} :
       \E r \in {processImage(engine, heap, fs, suffix, main.verbose, main.quiet, file)} :
        /\ heap' = r.heap
        /\ fs' = r.fs
        /\ main' = [main EXCEPT
                !.done = IF r.err = "" THEN @ + 1 ELSE Len(main.files),
                !.processed = Append(@, [file |-> file, err |-> r.err]),
                !.successCount = IF r.err = "" THEN @ + 1 ELSE @,
                !.log = @ \o r.out
                          \o (IF r.err # "" THEN <<Line("stderr", r.err, file)>> ELSE <<>>)]
    /\ UNCHANGED <<engine, err, img, result, calls, info, writes, bg48PNG, bg96PNG, frames, suffix>>

\* One pass of the batch loop: err := processImage(engine, file) ...  The
\* calls made so far are kept in processed, each with the error it returned.
Batch ==
    /\ main # Nil /\ main.pc = "batch" /\ main.done < Len(main.files)
    /\ \E file \in {main.files[main.done + 1]} :
       \E r \in {processImage(engine, heap, fs, suffix, main.verbose, main.quiet, file)} :
        /\ heap' = r.heap
        /\ fs' = r.fs
        /\ main' = [main EXCEPT
                !.done = @ + 1,
                !.processed = Append(@, [file |-> file, err |-> r.err]),
                !.successCount = IF r.err = "" THEN @ + 1 ELSE @,
                !.log = @ \o r.out
                          \o (IF r.err # "" THEN <<Line("stderr", r.err, file)>> ELSE <<>>)]
    /\ UNCHANGED <<engine, err, img, result, calls, info, writes, bg48PNG, bg96PNG, frames, suffix>>

\* After the batch loop: the summary with the two numbers it prints, and
\* main returns.
Summary ==
    /\ main # Nil /\ main.pc = "batch" /\ main.done >= Len(main.files)
    /\ main' = [main EXCEPT !.pc = "exit",
                    !.summary = IF main.quiet THEN <<>>
                                ELSE <<main.successCount, Len(main.files)>>,
                    !.log = @ \o (IF main.quiet THEN <<>>
                                  ELSE <<Line("stdout", "Successfully processed", <<>>)>>)]
    /\ UNCHANGED <<engine, err, heap, img, result, calls, info, writes, bg48PNG, bg96PNG, frames, suffix, fs>>

CliNext ==
    \/ DoFindImageFiles
    \/ DoExpandGlob
    \/ DoGenerateOutputPath
    \/ MainStart
    \/ ArgGlob
    \/ ArgMissing
    \/ ArgDir
    \/ ArgFile
    \/ Collected
    \/ Batch
    \/ Summary

Cli == CliInit /\ [][CliNext]_vars

(***************************************************************************)
(* The command line: what is claimed.                                      *)
(***************************************************************************)
\* The file name of path (its last element) contains the output suffix,
\* letters compared without regard to case.
SuffixInName(path) ==
    LET name == Base(path)
    IN  \E i \in 0..(Len(name) - Len(suffix)) :
            \A j \in 1..Len(suffix) : ToLowerByte(name[i + j]) = ToLowerByte(suffix[j])

\* The files a call of findImageFiles or expandGlob on its own returned.
Listed ==
    IF info # Nil /\ info.op \in {"findImageFiles", "expandGlob"} THEN info.files ELSE <<>>

\* C17: in every input mode (a single file argument, a directory scanned by
\* findImageFiles, a pattern expanded by expandGlob) a file whose name
\* contains the output suffix, compared case-insensitively, is never added
\* to the list of files to process.
C17_SuffixedNeverCollected ==
    /\ main # Nil => \A k \in 1..Len(main.files) : ~SuffixInName(main.files[k])
    /\ \A k \in 1..Len(Listed) : ~SuffixInName(Listed[k])

\* main has gone through a file argument, a directory and a pattern that
\* each name a file with the suffix in its name, in other capitals for the
\* file argument; it has skipped the three and kept the others.
C17_Witness ==
    /\ main # Nil /\ main.pc = "batch"
    /\ suffix = <<"_", "c", "l", "e", "a", "n">>
    /\ main.args = <<<<"c", "_", "C", "l", "e", "a", "n", ".", "j", "p", "e", "g">>, <<"d">>, <<"*", ".", "p", "n", "g">>>>
    /\ {<<"c", "_", "C", "l", "e", "a", "n", ".", "j", "p", "e", "g">>, <<"d", "/", "e", "_", "c", "l", "e", "a", "n", ".", "p", "n", "g">>, <<"a", "_", "c", "l", "e", "a", "n", ".", "p", "n", "g">>} \subseteq DOMAIN fs
    /\ \E k \in 1..Len(main.log) :
            main.log[k].what = "Skipping" /\ main.log[k].path = <<"c", "_", "C", "l", "e", "a", "n", ".", "j", "p", "e", "g">>
    /\ main.files = <<<<"d", "/", "b", "a", "d", ".", "p", "n", "g">>, <<"d", "/", "e", ".", "p", "n", "g">>, <<"a", ".", "p", "n", "g">>>>

\* path ends with .png, .jpg or .jpeg, in any capitals.
IsImageName(path) ==
    \E e \in {<<".", "p", "n", "g">>, <<".", "j", "p", "g">>, <<".", "j", "p", "e", "g">>} :
        /\ Len(path) >= Len(e)
        /\ ToLower(SubSeq(path, Len(path) - Len(e) + 1, Len(path))) = e

\* path names a regular file.
IsRegular(path) == Clean(path) \in DOMAIN fs /\ fs[Clean(path)].kind = "file"

\* path is dir followed by one name.
IsEntryOf(path, dir) ==
    LET d    == Clean(dir)
        name == IF d = Dot THEN path ELSE SubSeq(path, Len(d) + 2, Len(path))
    IN  /\ d = Dot \/ (Len(path) > Len(d) + 1 /\ SubSeq(path, 1, Len(d) + 1) = d \o Slash)
        /\ name # <<>>
        /\ \A i \in 1..Len(name) : name[i] # "/"

\* path names a directory: opening it, as processImage will, opens one.
IsDirectory(path) == Stat(fs, path) # Nil /\ IsDir(Stat(fs, path))

\* dir is a directory the user may read, and it is empty.
IsReadable(dir) == Stat(fs, dir) # Nil /\ Stat(fs, dir).kind = "dir"
IsEmptyDir(dir) == IsReadable(dir) /\ ReadDir(fs, dir).entries = <<>>

\* C18: findImageFiles(dir) and expandGlob(pattern) return only entries
\* that are not directories and whose extension, compared
\* case-insensitively, is .png, .jpg or .jpeg; findImageFiles looks only at
\* the immediate entries of dir, returns an empty list and no error for an
\* empty directory, and returns an error for a directory that cannot be
\* read.
C18_AsClaimed ==
    /\ \A k \in 1..Len(Listed) : ~IsDirectory(Listed[k]) /\ IsImageName(Listed[k])
    /\ info # Nil /\ info.op = "findImageFiles" =>
        /\ \A k \in 1..Len(info.files) : IsEntryOf(info.files[k], info.arg)
        /\ IsEmptyDir(info.arg) => info.files = <<>> /\ info.err = ""
        /\ ~IsReadable(info.arg) => info.err # ""

\* C19: generateOutputPath(inputPath, suffix) returns the path in the
\* directory of inputPath whose file name is the base name of inputPath
\* without its extension, followed by suffix, followed by the extension;
\* the extension and the directory are never changed.
C19_AsClaimed ==
    info # Nil /\ info.op = "generateOutputPath" =>
        LET ext  == Ext(info.arg)
            name == TrimSuffix(Base(info.arg), ext) \o suffix \o ext
        IN  /\ Dir(info.path) = Dir(info.arg)
            /\ Base(info.path) = name
            /\ Ext(info.path) = ext

(***************************************************************************)
(* The arithmetic of one channel, on its own: every alpha value an alpha   *)
(* map can hold (k/255 as a float32, k in 0..255) against every 8-bit      *)
(* channel value.                                                          *)
(***************************************************************************)
\* A variant that takes the logo for black.
RestoreChannelBlackLogo(w, a0) ==
    LET alpha == IF F32Less(MaxAlpha, a0) THEN MaxAlpha ELSE a0
    IN  IF F32Less(a0, AlphaThreshold)
        THEN [skipped |-> TRUE, alpha |-> a0, oneMinusAlpha |-> Nil, written |-> w]
        ELSE [skipped |-> FALSE, alpha |-> alpha,
              oneMinusAlpha |-> [m |-> OneMinusAlpha(alpha), e |-> alpha.e],
              written |-> Uint8(clamp(ReverseBlendBlackLogo(w, alpha), 0, 255))]

\* A variant that clamps alpha to 254/255 instead of MaxAlpha.
RestoreChannelLateClamp(w, a0) ==
    LET top   == RoundToF32(254, 255)
        alpha == IF F32Less(top, a0) THEN top ELSE a0
    IN  IF F32Less(a0, AlphaThreshold)
        THEN [skipped |-> TRUE, alpha |-> a0, oneMinusAlpha |-> Nil, written |-> w]
        ELSE [skipped |-> FALSE, alpha |-> alpha,
              oneMinusAlpha |-> [m |-> OneMinusAlpha(alpha), e |-> alpha.e],
              written |-> Uint8(clamp(ReverseBlend(w, alpha), 0, 255))]

\* The loop body from the threshold test to the value it writes, for one
\* channel with value w under the alpha-map value a0: whether the pixel is
\* skipped, the clamped alpha, the divisor 1 - alpha as m / 2^e, and the
\* value written.
RestoreChannel(w, a0) ==
    LET alpha == IF F32Less(MaxAlpha, a0) THEN MaxAlpha ELSE a0
    IN  IF F32Less(a0, AlphaThreshold)
        THEN [skipped |-> TRUE, alpha |-> a0, oneMinusAlpha |-> Nil, written |-> w]
        ELSE [skipped |-> FALSE, alpha |-> alpha,
              oneMinusAlpha |-> [m |-> OneMinusAlpha(alpha), e |-> alpha.e],
              written |-> Uint8(clamp(ReverseBlend(w, alpha), 0, 255))]

\* The engine and the images are not involved.
BlendInit ==
    /\ bg48PNG = [ok |-> TRUE, Rect |-> Rect(0, 0, Size48, Size48)]
    /\ bg96PNG = [ok |-> TRUE, Rect |-> Rect(0, 0, Size96, Size96)]
    /\ engine = Nil /\ err = "" /\ heap = <<>>
    /\ img = Nil /\ result = Nil /\ calls = 0 /\ info = Nil /\ writes = 0
    /\ frames = <<>> /\ suffix = <<>> /\ fs = <<>> /\ main = Nil

\* One channel of one pixel goes through the loop body; before holds the
\* values it had in earlier calls.
DoRestoreChannel ==
    /\ info = Nil
    /\ \E k \in 0..255, w \in 0..255 :
        info' = [op |-> "restore", level |-> k, watermarked |-> w, before |-> <<>>]
                    @@ RestoreChannel(w, LevelAlpha[k])
    /\ UNCHANGED <<engine, err, heap, img, result, calls, writes, bg48PNG, bg96PNG, frames, cliVars>>

\* The value written goes through the loop body again, as when
\* RemoveWatermark is called on its own output.
DoRestoreAgain ==
    /\ info # Nil /\ info.op = "restore" /\ Len(info.before) + 1 < MaxRounds
    /\ info' = [op |-> "restore", level |-> info.level, watermarked |-> info.written,
                before |-> Append(info.before, info.watermarked)]
                    @@ RestoreChannel(info.written, LevelAlpha[info.level])
    /\ UNCHANGED <<engine, err, heap, img, result, calls, writes, bg48PNG, bg96PNG, frames, cliVars>>

BlendNext == DoRestoreChannel \/ DoRestoreAgain

Blend == BlendInit /\ [][BlendNext]_vars

\* m / 2^e >= 0.01, for e >= 24 and m <= 2^e.
AtLeast001(d) == d.m >= (Pow2(d.e - 2) + 24) \div 25

\* The divisor under MaxAlpha: 1 - 16609444 / 2^24 = 167772 / 2^24, a
\* little under 0.01.
LeastDivisor == [m |-> OneMinusAlpha(MaxAlpha), e |-> MaxAlpha.e]

\* a >= b for two divisors m / 2^e, 24 <= e <= 31.
DivisorGeq(a, b) ==
    IF a.e >= b.e THEN a.m >= b.m * Pow2(a.e - b.e)
    ELSE a.m * Pow2(b.e - a.e) >= b.m

Restored == info # Nil /\ info.op = "restore" /\ ~info.skipped

\* C21 (as amended): for every alpha value of an alpha map and every 8-bit
\* channel value, the divisor 1 - alpha of the reverse blend is positive and
\* at least 1 - MaxAlpha = 167772 / 2^24 (0.0099999905, MaxAlpha being the
\* float32 nearest to 0.99), every channel value written back lies in
\* [0, 255], and no input raises an error.
C21_ClampsMakeBlendSafe ==
    /\ LeastDivisor = [m |-> 167772, e |-> 24]
    /\ Restored =>
        /\ info.oneMinusAlpha.m > 0
        /\ DivisorGeq(info.oneMinusAlpha, LeastDivisor)
        /\ info.written \in 0..255
    /\ info # Nil /\ info.op = "restore" /\ info.skipped => info.written = info.watermarked

\* C21 as claimed: the divisor is at least 0.01.
C21_AsClaimed ==
    Restored =>
        /\ AtLeast001(info.oneMinusAlpha)
        /\ info.written \in 0..255

\* A channel has been restored under an alpha that was clamped, with a
\* quotient below 0 that the clamp raised to 0.
C21_Witness ==
    /\ Restored
    /\ info.level = 255
    /\ info.alpha = MaxAlpha
    /\ info.watermarked = 200
    /\ info.written = 0

(***************************************************************************)
(* Locality.  The loops of RemoveWatermark run in other orders: the steps  *)
(* are those of the loop body, the order in which the (row, col) pairs are *)
(* visited is a parameter.                                                 *)
(***************************************************************************)
Orders == {"reversed", "columns", "stride"}

\* The (row, col) pair an order visits at step k (from 0) of a size x size
\* square: row by row backwards, column by column, or every
\* 1151st pair (1151 has no common factor with 48 * 48 or 96 * 96).
VisitAt(order, k, size) ==
    LET n == size * size
        j == IF order = "reversed" THEN n - 1 - k
             ELSE IF order = "columns" THEN (k % size) * size + k \div size
             ELSE (k * 1151) % n
    IN  <<j \div size, j % size>>

\* Steps lo..hi-1 of an order, on heap h with the locals l.
RECURSIVE VisitLoop(_, _, _, _, _)
VisitLoop(h, l, order, lo, hi) ==
    IF hi <= lo THEN h
    ELSE IF hi = lo + 1
         THEN ProcessPixel(h, l, VisitAt(order, lo, l.config.Size)[1],
                           VisitAt(order, lo, l.config.Size)[2])
    ELSE CHOOSE out \in
            {VisitLoop(left, l, order, (lo + hi) \div 2, hi) :
                left \in {VisitLoop(h, l, order, lo, (lo + hi) \div 2)}} : TRUE

\* The pixels RemoveWatermark returns for image im when its loops visit the
\* pairs in the given order.
Visiting(order, e, h, im) ==
    LET new    == NewRGBA(h, im.Rect)
        config == DetectConfig(Dx(im.Rect), Dy(im.Rect))
        locals == [result   |-> new.image,
                   width    |-> Dx(im.Rect),
                   height   |-> Dy(im.Rect),
                   config   |-> config,
                   position |-> CalculatePosition(Dx(im.Rect), Dy(im.Rect), config),
                   alphaMap |-> SelectAlphaMap(e, config)]
    IN  CHOOSE px \in
            {VisitLoop(copied, l, order, 0, l.config.Size * l.config.Size)[l.result.Pix] :
                copied \in {DrawSrc(new.heap, new.image, im)}, l \in {locals}} : TRUE

\* The output pixel as a function of the input pixel c, as At(x, y).RGBA()
\* gives it in 8 bits, and the alpha-map entry a of its position alone;
\* processed tells whether the position is one the loops do not skip.
LocalPixel(c, a, processed) ==
    IF ~processed THEN c
    ELSE RGBA(RestoreChannel(c.R, a).written, RestoreChannel(c.G, a).written,
              RestoreChannel(c.B, a).written, c.A)

\* C22: RemoveWatermark is purely local per pixel: the output pixel at
\* (x, y) is a function only of the input pixel at (x, y), the width and
\* height of the image and the alpha-map entry for that position, so that
\* visiting the watermark coordinates in any order yields the same output
\* image as the row-by-row order (compared after the first call on an
\* image; a second call has the same input).
C22_PurelyLocal ==
    Returned =>
        /\ \A p \in Altered : In(p[1], p[2], WmRect(img))
        /\ \A p \in Points(WmRect(img)) :
            In(p[1], p[2], img.Rect) =>
                PixAt(output, p[1], p[2]) =
                    LocalPixel(PixAt(seen, p[1], p[2]), WmAlpha(p, img), p \in Processed(img))
        /\ calls = 1 => \A order \in Orders : Visiting(order, engine, heap, img) = output

\* A call has changed two pixels of one column, two rows apart, that
\* differ before and after, and has left other pixels of the watermark
\* rectangle as they were.
C22_Witness ==
    /\ Returned
    /\ input.bg = Ramp
    /\ \E p \in Changed, q \in Changed :
            /\ q = <<p[1], p[2] + 2>>
            /\ PixAt(input, p[1], p[2]) # PixAt(input, q[1], q[2])
            /\ PixAt(output, p[1], p[2]) # PixAt(output, q[1], q[2])
    /\ \E p \in Points(WmRect(img)) : In(p[1], p[2], img.Rect) /\ p \notin Changed

(***************************************************************************)
(* The batch loop.                                                         *)
(***************************************************************************)
\* The calls of processImage so far that returned no error.
Succeeded(made) == {k \in 1..Len(made) : made[k].err = ""}

\* Those that returned an error, in the order of the calls.
HasFailed(c) == c.err # ""
Failures(made) == SelectSeq(made, HasFailed)

\* The lines the batch loop has written to os.Stderr so far.
IsError(line) == line.out = "stderr"
Reported(log) == SelectSeq(log, IsError)

InBatch == main # Nil /\ (main.pc = "batch" \/ (main.pc = "exit" /\ main.files # <<>>))

\* C23: the batch loop calls processImage on every file of the collected
\* list, in list order; an error from one file is reported and does not
\* stop or skip the files after it, and the success count printed at the
\* end equals the number of files for which processImage returned no error
\* (between 0 and the list length).
C23_BatchLoop ==
    /\ [](InBatch =>
            /\ Len(main.processed) = main.done
            /\ main.done <= Len(main.files)
            /\ \A k \in 1..main.done : main.processed[k].file = main.files[k]
            /\ main.successCount = Cardinality(Succeeded(main.processed))
            /\ main.successCount \in 0..Len(main.files)
            /\ Reported(main.log) =
                    [k \in 1..(main.done - main.successCount) |->
                        Line("stderr",
                             Failures(main.processed)[k].err,
                             Failures(main.processed)[k].file)]
            /\ main.pc = "exit" =>
                    /\ main.done = Len(main.files)
                    /\ main.status = 0
                    /\ ~main.quiet => main.summary = <<Cardinality(Succeeded(main.processed)),
                                                       Len(main.files)>>)
    /\ [][main # Nil /\ main.pc = "batch" =>
            \/ /\ main.done < Len(main.files)
               /\ main'.pc = "batch"
               /\ main'.files = main.files
               /\ main'.processed =
                    Append(main.processed,
                           [file |-> main.files[main.done + 1],
                            err  |-> processImage(engine, heap, fs, suffix,
                                                  main.verbose, main.quiet,
                                                  main.files[main.done + 1]).err])
            \/ /\ main.done = Len(main.files)
               /\ main'.pc = "exit"
               /\ main'.processed = main.processed
         ]_vars

\* main has returned after a batch in which the first file was saved, the
\* second failed and the third, after it, was saved again.
C23_Witness ==
    /\ main # Nil /\ main.pc = "exit"
    /\ Len(main.files) = 3
    /\ main.processed[1].err = ""
    /\ main.processed[2].err # ""
    /\ main.processed[3].err = ""
    /\ main.summary = <<2, 3>>

\* The values a channel has had: before each call, and after the last.
History == info.before \o <<info.watermarked, info.written>>

\* C24: RemoveWatermark never brightens a pixel: for each of R, G and B the
\* output value is less than or equal to the input value, so that applying
\* RemoveWatermark repeatedly to its own output yields a non-increasing
\* sequence for every channel; a channel at 255 stays at 255 and a channel
\* at 0 stays at 0.
C24_NeverBrightens ==
    info # Nil /\ info.op = "restore" =>
        /\ info.written <= info.watermarked
        /\ \A i \in 1..(Len(History) - 1) : History[i + 1] <= History[i]
        /\ info.watermarked = 255 => info.written = 255
        /\ info.watermarked = 0 => info.written = 0

\* A channel has gone through the loop body three times and was darker
\* after each.
C24_Witness ==
    /\ info # Nil /\ info.op = "restore" /\ ~info.skipped
    /\ Len(History) = 4
    /\ \A i \in 1..3 : History[i + 1] < History[i]

\* The watermark rectangle of image im measured from the corner of its own
\* bounds: margin pixels in from its right and bottom edges.
AnchoredRect(im) ==
    [Min |-> [X |-> im.Rect.Min.X + WmX(im), Y |-> im.Rect.Min.Y + WmY(im)],
     Max |-> [X |-> im.Rect.Min.X + WmX(im) + WmSize(Dx(im.Rect), Dy(im.Rect)),
              Y |-> im.Rect.Min.Y + WmY(im) + WmSize(Dx(im.Rect), Dy(im.Rect))]]

\* C25: the corrected region is anchored to the bottom-right corner of the
\* image's own bounds: for an input whose bounds do not start at (0, 0) the
\* pixels RemoveWatermark modifies are those at
\* bounds.Min + (width - margin - size + col, height - margin - size + row),
\* margin pixels in from the image's right and bottom edges.
C25_AsClaimed ==
    Returned => \A p \in Changed : In(p[1], p[2], AnchoredRect(img))

\* The preset and the alpha map of a call to RemoveWatermark on image im.
CallConfig(im) == DetectConfig(Dx(im.Rect), Dy(im.Rect))
CallAlphaMap(im) == SelectAlphaMap(engine, CallConfig(im))

\* C26: in every RemoveWatermark call on an engine built by NewEngine the
\* alpha map selected for the call has exactly config.Size * config.Size
\* entries, the 96 map if and only if DetectConfig chose size 96 and
\* otherwise the 48 map, so that every lookup index row * Size + col with
\* 0 <= row, col < Size lies inside the map, for any image size.
C26_AlphaMapFitsPreset ==
    engine # Nil /\ img # Nil =>
        LET config == CallConfig(img)
            map    == CallAlphaMap(img)
        IN  /\ Len(map) = config.Size * config.Size
            /\ config.Size = 96 <=> map = engine.alphaMap96
            /\ config.Size # 96 <=> map = engine.alphaMap48
            /\ \A row \in 0..(config.Size - 1), col \in 0..(config.Size - 1) :
                    AlphaIdx(row, col, config) \in DOMAIN map

\* A call on an image of the large preset has returned with changed pixels;
\* its map has 96 * 96 entries.
C26_Witness ==
    /\ Returned /\ calls >= 1 /\ Changed # {}
    /\ CallConfig(img).Size = 96
    /\ Len(CallAlphaMap(img)) = 9216

\* Rectangle r lies entirely inside the image [0, width) x [0, height).
InsideImage(r, width, height) ==
    0 <= r.Min.X /\ 0 <= r.Min.Y /\ r.Max.X <= width /\ r.Max.Y <= height

\* C27: the rectangle returned by GetWatermarkInfo(width, height) lies
\* entirely inside the image [0, width) x [0, height) if and only if
\* width >= margin + size and height >= margin + size for the detected
\* preset; this always holds when the 96/64 preset is detected, and under
\* the 48/32 preset it holds exactly when both dimensions are at least 80.
C27_InsideIffLargeEnough ==
    Asked("GetWatermarkInfo") =>
        LET w      == info.width
            h      == info.height
            inside == InsideImage(info.position, w, h)
        IN  /\ inside <=> (w >= info.config.Margin + info.config.Size
                            /\ h >= info.config.Margin + info.config.Size)
            /\ info.config = [Size |-> 96, Margin |-> 64] => inside
            /\ info.config = [Size |-> 48, Margin |-> 32] => (inside <=> (w >= 80 /\ h >= 80))
            /\ info.config \in {[Size |-> 96, Margin |-> 64], [Size |-> 48, Margin |-> 32]}

\* GetWatermarkInfo has been asked about an 80 x 1025 image: the small
\* preset, with the rectangle touching the left edge.
C27_Witness ==
    /\ Asked("GetWatermarkInfo")
    /\ info.width = 80 /\ info.height = 1025
    /\ info.config.Size = 48
    /\ info.position.Min.X = 0
    /\ InsideImage(info.position, info.width, info.height)

\* main was given the one argument path, a regular file named without
\* pattern characters, and has gone through its arguments.
SingleFileRun(path) ==
    /\ main # Nil /\ main.args = <<path>> /\ main.next > 1
    /\ ~isGlobPattern(path) /\ IsRegular(path)

\* C28: the already-processed skip rule is the same in all three input
\* modes: for one and the same file, passing it as a single file argument,
\* matching it with a pattern, or finding it by a directory scan gives the
\* same decision, and a file is skipped only when its own file name (the
\* last path element) contains the suffix, not when only a parent
\* directory's name does.  Here: a file passed as the single argument is
\* left out of the list only if its file name contains the suffix.
C28_AsClaimed ==
    \A path \in DOMAIN fs :
        SingleFileRun(path) /\ main.files = <<>> => SuffixInName(path)

\* C29: the command never overwrites a file it takes as input: for every
\* list of files that main collects, with any suffix including the empty
\* one, the output path generated for a file in the list is different from
\* every path in the list; with an empty suffix every candidate is skipped,
\* so that nothing is processed.
C29_AsClaimed ==
    main # Nil =>
        /\ \A i \in 1..Len(main.files), j \in 1..Len(main.files) :
                generateOutputPath(main.files[i], suffix) # main.files[j]
        /\ suffix = <<>> => main.files = <<>>

====
